---- MODULE Spec2Model ----
(***************************************************************************)
(* Model of the go-marketplace backend: the users and ads tables, the auth  *)
(* service (Register, Authenticate, ValidateToken) with the JWT library    *)
(* calls it makes, the ad service (CreateAd, GetAds) and the HTTP handlers *)
(* in front of them.  Time is the Unix second of time.Now().Unix().        *)
(***************************************************************************)
EXTENDS Integers, Sequences, FiniteSets, TLC

VARIABLES
    users,      \* rows of table users: [ID, Login, Password, CreatedAt]
    userSeq,    \* last value handed out by the SERIAL sequence of users.id
    now,        \* the wall clock, in Unix seconds
    tok,        \* the token string under validation (NoToken when none)
    res,        \* the last call: its operation, inputs and results
    ads,        \* rows of table ads
    adSeq,      \* last value handed out by the SERIAL sequence of ads.id
    req,        \* the ad under consideration ([kind |-> "none"] when none)
    calls       \* the Register calls in flight, one per connection

vars == <<users, userSeq, now, tok, res, ads, adSeq, req, calls>>

\* the variables of the ads table and of the calls in flight
adVars == <<ads, adSeq, req, calls>>

----------------------------------------------------------------------------
(* Program constants *)

MinPasswordLen == 8
MaxPasswordLen == 72
TokenTTL == 86400
IatSkew == 60
MaxLoginLen == 20

Issuer == "auth-services"
Audience == "marketgo-api"

ErrPasswordLength == <<"password must be between 8 and 72 characters">>
ErrInvalidToken == <<"invalid token">>
ErrTokenExpired == <<"token expired">>
ErrTokenNotYetValid == <<"token not valid yet">>
ErrTokenIssuedFuture == <<"token issued in the future">>
ErrInvalidIssuer == <<"invalid issuer">>
ErrInvalidAudience == <<"invalid audience">>
ErrInvalidUserID == <<"invalid user_id claim">>

\* An error is the chain of its messages, outermost first; nil is the empty chain.
Nil == <<>>

----------------------------------------------------------------------------
(* Bounds of the model *)

T0 == 1000          \* the clock's first value
MaxTicks == 1       \* seconds after T0 that the clock visits
MaxDrift == 1       \* seconds that may pass between two clock reads of one call
MaxSeq == 2         \* the users.id sequence is not advanced past this

\* A password is a byte string; the model draws strings of one repeated byte:
\* n times the byte b.
Bytes(n, b) == [b |-> b, n |-> n]
PasswordLen(pw) == pw.n

Salts == {"salt-1"}

Secret == "supersecret"
OtherSecret == "not-the-secret"

Logins == {"alice", "bob", "a-login-of-21-letters"}

Passwords ==
    { Bytes(MinPasswordLen - 1, 1), Bytes(MinPasswordLen, 1),
      Bytes(MaxPasswordLen, 1), Bytes(MaxPasswordLen + 1, 1) }

----------------------------------------------------------------------------
(* bcrypt *)

\* The key bcrypt feeds to Blowfish: the password and a trailing NUL, cycled
\* over the 72 bytes of the P-array; bytes past the 72nd are never read.  For
\* n times the byte b that is b repeated, with a NUL after every n bytes when
\* n < 72: the key is fixed by b and min(n, 72).
BcryptKey(pw) ==
    [b |-> pw.b, n |-> IF pw.n > MaxPasswordLen THEN MaxPasswordLen ELSE pw.n]

GenerateFromPassword(pw, salt) == [salt |-> salt, key |-> BcryptKey(pw)]

\* The password column of the zero User: the empty string.
NoHash == [salt |-> "", key |-> [b |-> 0, n |-> 0]]

CompareHashAndPassword(hash, pw) == hash # NoHash /\ hash.key = BcryptKey(pw)

----------------------------------------------------------------------------
(* The users table *)

ZeroUser == [ID |-> 0, Login |-> "", Password |-> NoHash, CreatedAt |-> 0]

QueryCreateUserReturning == <<"id", "login", "created_at">>
QueryGetUserByLoginColumns == <<"id", "login", "password", "created_at">>

\* pgx Row.Scan: the row's columns are copied into the destinations in order;
\* a destination count other than the column count is an error.
ScanErr(columns, dests) ==
    IF Len(columns) # Len(dests)
    THEN <<"number of field descriptions must equal number of destinations">>
    ELSE Nil

ErrStore == <<"store unavailable">>
ErrNoRows == <<"no rows in result set">>

\* CreateUser on a table without the UNIQUE constraint on login
CreateUserNoUnique(us, seq, login, hashedPassword, t, dbOK, seqBurn) ==
    LET id == seq + 1
        row == [ID |-> id, Login |-> login, Password |-> hashedPassword, CreatedAt |-> t]
        fail(s, e) == [users |-> us, seq |-> s, user |-> ZeroUser,
                       err |-> <<"failed to create user">> \o e]
    IN  IF ~dbOK THEN fail(seq, ErrStore)
        ELSE IF Len(login) > MaxLoginLen
        THEN fail(IF seqBurn THEN id ELSE seq, <<"value too long for type character varying(20)">>)
        ELSE [users |-> us \cup {row}, seq |-> id,
              user |-> [ZeroUser EXCEPT !.ID = id, !.Login = login, !.CreatedAt = t],
              err |-> Nil]

\* CreateUser on a table whose UNIQUE constraint spans (login, password)
CreateUserUniquePair(us, seq, login, hashedPassword, t, dbOK, seqBurn) ==
    LET id == seq + 1
        row == [ID |-> id, Login |-> login, Password |-> hashedPassword, CreatedAt |-> t]
        fail(s, e) == [users |-> us, seq |-> s, user |-> ZeroUser,
                       err |-> <<"failed to create user">> \o e]
    IN  IF ~dbOK THEN fail(seq, ErrStore)
        ELSE IF Len(login) > MaxLoginLen
        THEN fail(IF seqBurn THEN id ELSE seq, <<"value too long for type character varying(20)">>)
        ELSE IF \E u \in us : u.Login = login /\ u.Password = hashedPassword
        THEN fail(id, <<"duplicate key value violates unique constraint">>)
        ELSE [users |-> us \cup {row}, seq |-> id,
              user |-> [ZeroUser EXCEPT !.ID = id, !.Login = login, !.CreatedAt = t],
              err |-> Nil]

\* INSERT INTO users (login, password) ... RETURNING id, login, created_at
\* Result: the table, the sequence, the returned User and the error.
CreateUser(us, seq, login, hashedPassword, t, dbOK, seqBurn) ==
    LET id == seq + 1
        row == [ID |-> id, Login |-> login, Password |-> hashedPassword, CreatedAt |-> t]
        fail(s, e) == [users |-> us, seq |-> s, user |-> ZeroUser,
                       err |-> <<"failed to create user">> \o e]
    IN  IF ~dbOK THEN fail(seq, ErrStore)
        ELSE IF Len(login) > MaxLoginLen
        THEN fail(IF seqBurn THEN id ELSE seq, <<"value too long for type character varying(20)">>)
        ELSE IF \E u \in us : u.Login = login
        THEN fail(id, <<"duplicate key value violates unique constraint">>)
        ELSE LET e == ScanErr(QueryCreateUserReturning, <<"ID", "Login", "CreatedAt">>)
             IN  [users |-> us \cup {row}, seq |-> id,
                  user |-> IF e = Nil THEN [ZeroUser EXCEPT !.ID = id, !.Login = login, !.CreatedAt = t]
                           ELSE ZeroUser,
                  err |-> IF e = Nil THEN Nil ELSE <<"failed to create user">> \o e]

\* SELECT id, login, password, created_at FROM users WHERE login = $1,
\* scanned into &user.ID, &user.Login, &user.CreatedAt.
UserByLogin(us, login, dbOK) ==
    IF ~dbOK THEN [user |-> ZeroUser, err |-> <<"failed to get user">> \o ErrStore]
    ELSE IF ~\E u \in us : u.Login = login
    THEN [user |-> ZeroUser, err |-> <<"user not found">> \o ErrNoRows]
    ELSE LET row == CHOOSE u \in us : u.Login = login
             e == ScanErr(QueryGetUserByLoginColumns, <<"ID", "Login", "CreatedAt">>)
         IN  IF e # Nil
             THEN [user |-> ZeroUser, err |-> <<"failed to get user">> \o e]
             ELSE [user |-> [ZeroUser EXCEPT !.ID = row.ID, !.Login = row.Login,
                                             !.CreatedAt = row.CreatedAt],
                   err |-> Nil]

----------------------------------------------------------------------------
(* Claim values: Go values held in a jwt.MapClaims, and their JSON encoding *)

\* A number is n, or n + 1/2 when frac is set.
Absent == [t |-> "absent", n |-> 0, frac |-> FALSE, s |-> ""]
GoInt64(n) == [t |-> "int64", n |-> n, frac |-> FALSE, s |-> ""]
GoFloat64(n, frac) == [t |-> "float64", n |-> n, frac |-> frac, s |-> ""]
GoString(s) == [t |-> "string", n |-> 0, frac |-> FALSE, s |-> s]

ClaimNames == {"user_id", "iat", "nbf", "exp", "iss", "aud"}

\* encoding/json, as SignedString applies it to the claims map
JSONEncode(v) ==
    CASE v.t \in {"int64", "float64"} -> [t |-> "number", n |-> v.n, frac |-> v.frac, s |-> ""]
      [] v.t = "string" -> [t |-> "jstring", n |-> 0, frac |-> FALSE, s |-> v.s]
      [] OTHER -> Absent

\* encoding/json into map[string]interface{}: every number becomes a float64
JSONDecode(j) ==
    CASE j.t = "number" -> GoFloat64(j.n, j.frac)
      [] j.t = "jstring" -> GoString(j.s)
      [] OTHER -> Absent

IsFloat64(v) == v.t = "float64"
IsString(v) == v.t = "string"

\* Go's int64(f) and int(f): truncation toward zero
Int64Of(v) == IF v.n < 0 /\ v.frac THEN v.n + 1 ELSE v.n
\* f <= 0 and f == 0 on a float64
FloatLeqZero(v) == v.n < 0 \/ (v.n = 0 /\ ~v.frac)
FloatIsZero(v) == v.n = 0 /\ ~v.frac

----------------------------------------------------------------------------
(* Tokens: header algorithm, JSON payload, signature *)

NoToken == [wellformed |-> FALSE, alg |-> "", claims |-> [c \in ClaimNames |-> Absent],
            sig |-> <<>>]

\* "invalid.token.string": three segments that are not base64 JSON
MalformedToken == [NoToken EXCEPT !.sig = <<"string">>]

\* The signature of a payload under an algorithm and key; alg none signs nothing.
Mac(alg, key, payload) == IF alg = "none" THEN <<>> ELSE <<alg, key, payload>>

NewWithClaims(method, claims) == [alg |-> method, claims |-> claims]

SignedString(token, key) ==
    LET payload == [c \in ClaimNames |-> JSONEncode(token.claims[c])]
    IN  [wellformed |-> TRUE, alg |-> token.alg, claims |-> payload,
         sig |-> Mac(token.alg, key, payload)]

\* Authenticate's claims with the expiry set to the time of issue
AuthClaimsNoTTL(user, t) ==
    [user_id |-> GoFloat64(user.ID, FALSE),
     iat |-> GoInt64(t),
     nbf |-> GoInt64(t),
     exp |-> GoInt64(t),
     iss |-> GoString(Issuer),
     aud |-> GoString(Audience)]

\* Authenticate's claims for a user at time t
AuthClaims(user, t) ==
    [user_id |-> GoFloat64(user.ID, FALSE),
     iat |-> GoInt64(t),
     nbf |-> GoInt64(t),
     exp |-> GoInt64(t + TokenTTL),
     iss |-> GoString(Issuer),
     aud |-> GoString(Audience)]

IssueToken(user, secret, t) ==
    SignedString(NewWithClaims("HS256", AuthClaims(user, t)), secret)

----------------------------------------------------------------------------
(* jwt.Parse with the service's key function and WithValidMethods(HS256) *)

KnownMethods == {"HS256", "HS384", "none"}

\* Validator.verifyExpiresAt on a MapClaims: a missing or zero exp is no
\* expiry; a non-number is an error; else the token is live while now < exp.
VerifyExpiresAt(claims, t) ==
    LET exp == claims["exp"]
    IN  CASE exp.t = "absent" -> Nil
          [] exp.t = "float64" ->
                IF FloatIsZero(exp) THEN Nil
                ELSE IF t < Int64Of(exp) THEN Nil ELSE <<"token is expired">>
          [] OTHER -> <<"exp is invalid">>

\* Validator.verifyNotBefore: valid once now >= nbf.
VerifyNotBefore(claims, t) ==
    LET nbf == claims["nbf"]
    IN  CASE nbf.t = "absent" -> Nil
          [] nbf.t = "float64" ->
                IF FloatIsZero(nbf) THEN Nil
                ELSE IF t >= Int64Of(nbf) THEN Nil ELSE <<"token is not valid yet">>
          [] OTHER -> <<"nbf is invalid">>

\* Validator.Validate with no expected issuer, audience or subject and
\* without WithIssuedAt: every failure is collected and the errors joined.
ValidatorErrors(claims, t) == VerifyExpiresAt(claims, t) \o VerifyNotBefore(claims, t)

\* The key function handed to jwt.Parse
KeyFunc(token, secret) ==
    IF token.alg # "HS256"
    THEN [key |-> "", err |-> <<"unexpected signing method">>]
    ELSE [key |-> secret, err |-> Nil]

\* jwt.Parse that never compares the signature (as ParseUnverified does)
JwtParseUnverified(tokenString, secret, t) ==
    LET bad(e) == [valid |-> FALSE, claims |-> [c \in ClaimNames |-> Absent], err |-> e]
        claims == [c \in ClaimNames |-> JSONDecode(tokenString.claims[c])]
        verrs == ValidatorErrors(claims, t)
    IN  IF ~tokenString.wellformed
        THEN bad(<<"token is malformed">>)
        ELSE IF tokenString.alg \notin KnownMethods
        THEN bad(<<"token is unverifiable", "signing method (alg) is unavailable">>)
        ELSE IF verrs # Nil
        THEN [valid |-> FALSE, claims |-> claims,
              err |-> <<"token has invalid claims">> \o verrs]
        ELSE [valid |-> TRUE, claims |-> claims, err |-> Nil]

JwtParse(tokenString, secret, t) ==
    LET bad(e) == [valid |-> FALSE, claims |-> [c \in ClaimNames |-> Absent], err |-> e]
        claims == [c \in ClaimNames |-> JSONDecode(tokenString.claims[c])]
        kf == KeyFunc(tokenString, secret)
        verrs == ValidatorErrors(claims, t)
    IN  IF ~tokenString.wellformed
        THEN bad(<<"token is malformed">>)
        ELSE IF tokenString.alg \notin KnownMethods
        THEN bad(<<"token is unverifiable", "signing method (alg) is unavailable">>)
        ELSE IF tokenString.alg \notin {"HS256"}
        THEN bad(<<"token signature is invalid", "signing method is invalid">>)
        ELSE IF kf.err # Nil
        THEN bad(<<"token is unverifiable">> \o kf.err)
        ELSE IF tokenString.sig # Mac(tokenString.alg, kf.key, tokenString.claims)
        THEN bad(<<"token signature is invalid", "signature is invalid">>)
        ELSE IF verrs # Nil
        THEN [valid |-> FALSE, claims |-> claims,
              err |-> <<"token has invalid claims">> \o verrs]
        ELSE [valid |-> TRUE, claims |-> claims, err |-> Nil]

----------------------------------------------------------------------------
(* The auth service *)

\* validateRegisteredClaims without its issuer check
validateRegisteredClaimsNoIssuer(claims, t) ==
    LET exp == claims["exp"]
        nbf == claims["nbf"]
        iat == claims["iat"]
        aud == claims["aud"]
    IN  IF ~IsFloat64(exp) \/ Int64Of(exp) < t THEN ErrTokenExpired
        ELSE IF IsFloat64(nbf) /\ Int64Of(nbf) > t THEN ErrTokenNotYetValid
        ELSE IF IsFloat64(iat) /\ Int64Of(iat) > t + IatSkew THEN ErrTokenIssuedFuture
        ELSE IF ~IsString(aud) \/ aud.s # Audience THEN ErrInvalidAudience
        ELSE Nil

\* validateRegisteredClaims with the skew bound itself rejected (>= for >)
validateRegisteredClaimsSkewExclusive(claims, t) ==
    LET exp == claims["exp"]
        nbf == claims["nbf"]
        iat == claims["iat"]
        iss == claims["iss"]
        aud == claims["aud"]
    IN  IF ~IsFloat64(exp) \/ Int64Of(exp) < t THEN ErrTokenExpired
        ELSE IF IsFloat64(nbf) /\ Int64Of(nbf) > t THEN ErrTokenNotYetValid
        ELSE IF IsFloat64(iat) /\ Int64Of(iat) >= t + IatSkew THEN ErrTokenIssuedFuture
        ELSE IF ~IsString(iss) \/ iss.s # Issuer THEN ErrInvalidIssuer
        ELSE IF ~IsString(aud) \/ aud.s # Audience THEN ErrInvalidAudience
        ELSE Nil

\* validateRegisteredClaims, with now the clock it reads
validateRegisteredClaims(claims, t) ==
    LET exp == claims["exp"]
        nbf == claims["nbf"]
        iat == claims["iat"]
        iss == claims["iss"]
        aud == claims["aud"]
    IN  IF ~IsFloat64(exp) \/ Int64Of(exp) < t THEN ErrTokenExpired
        ELSE IF IsFloat64(nbf) /\ Int64Of(nbf) > t THEN ErrTokenNotYetValid
        ELSE IF IsFloat64(iat) /\ Int64Of(iat) > t + IatSkew THEN ErrTokenIssuedFuture
        ELSE IF ~IsString(iss) \/ iss.s # Issuer THEN ErrInvalidIssuer
        ELSE IF ~IsString(aud) \/ aud.s # Audience THEN ErrInvalidAudience
        ELSE Nil

\* ValidateToken: t1 is the clock jwt.Parse reads, t2 the clock
\* validateRegisteredClaims reads afterwards.
ValidateToken(secret, tokenString, t1, t2) ==
    LET p == JwtParse(tokenString, secret, t1)
        e == validateRegisteredClaims(p.claims, t2)
        userID == p.claims["user_id"]
    IN  IF p.err # Nil THEN [id |-> 0, err |-> p.err]
        ELSE IF ~p.valid THEN [id |-> 0, err |-> ErrInvalidToken]
        ELSE IF e # Nil THEN [id |-> 0, err |-> e]
        ELSE IF ~IsFloat64(userID) \/ FloatLeqZero(userID)
        THEN [id |-> 0, err |-> ErrInvalidUserID]
        ELSE [id |-> Int64Of(userID), err |-> Nil]

\* Register without the upper bound on the password length
RegisterNoUpperBound(us, seq, login, password, salt, t, dbOK, seqBurn) ==
    IF PasswordLen(password) < MinPasswordLen
    THEN [users |-> us, seq |-> seq, user |-> ZeroUser, err |-> ErrPasswordLength]
    ELSE CreateUser(us, seq, login, GenerateFromPassword(password, salt), t, dbOK, seqBurn)

\* Register: the users table and sequence afterwards, the User and the error
Register(us, seq, login, password, salt, t, dbOK, seqBurn) ==
    IF PasswordLen(password) < MinPasswordLen \/ PasswordLen(password) > MaxPasswordLen
    THEN [users |-> us, seq |-> seq, user |-> ZeroUser, err |-> ErrPasswordLength]
    ELSE CreateUser(us, seq, login, GenerateFromPassword(password, salt), t, dbOK, seqBurn)

ErrMismatchedHashAndPassword ==
    <<"crypto/bcrypt: hashedPassword is not the hash of the given password">>

\* Authenticate that drops both error returns
AuthenticateUnchecked(us, secret, login, password, t, dbOK) ==
    LET q == UserByLogin(us, login, dbOK)
    IN  [token |-> IssueToken(q.user, secret, t), err |-> Nil]

\* Authenticate: the signed token and the error
Authenticate(us, secret, login, password, t, dbOK) ==
    LET q == UserByLogin(us, login, dbOK)
    IN  IF q.err # Nil THEN [token |-> NoToken, err |-> q.err]
        ELSE IF ~CompareHashAndPassword(q.user.Password, password)
        THEN [token |-> NoToken, err |-> ErrMismatchedHashAndPassword]
        ELSE [token |-> IssueToken(q.user, secret, t), err |-> Nil]

----------------------------------------------------------------------------
(* Strings of the ad fields.  A string is lead spaces, then n characters of *)
(* w bytes each (the first and last of them not white space), then trail    *)
(* spaces; n = 0 is a string of spaces only.                                *)

Str(lead, n, w, trail) == [lead |-> lead, n |-> n, w |-> w, trail |-> trail]
EmptyStr == Str(0, 0, 1, 0)

\* strings.TrimSpace
TrimSpace(s) == IF s.n = 0 THEN EmptyStr ELSE [s EXCEPT !.lead = 0, !.trail = 0]
\* Go's len(s): the number of bytes
GoLen(s) == s.lead + s.n * s.w + s.trail
\* the number of characters, as the store's VARCHAR(n) counts them
CharLength(s) == s.lead + s.n + s.trail

\* A URL string: its scheme ("" when it has none), whether what follows the
\* scheme starts with "/", and its length in characters.
URLString(scheme, slash, chars) == [scheme |-> scheme, slash |-> slash, chars |-> chars]
EmptyURL == URLString("", FALSE, 0)

\* url.ParseRequestURI: the raw URL is taken as an absolute URI or as an
\* absolute path; anything else is an error.
ParseRequestURI(rawURL) ==
    IF rawURL.chars = 0 THEN <<"parse: empty url">>
    ELSE IF rawURL.scheme = "" /\ ~rawURL.slash THEN <<"parse: invalid URI for request">>
    ELSE Nil

----------------------------------------------------------------------------
(* The ads table and the store calls on it *)

minTitleLength == 2
maxTitleLength == 100
maxTextLength == 2000
minPrice == 1
maxPrice == 100000000

\* ads.title VARCHAR(100), ads.image_url VARCHAR(200)
TitleColumnLen == 100
ImageURLColumnLen == 200

\* the messages are the source's, in English
ErrUserNotFound == <<"user with the given ID does not exist">>
ErrInvalidSortBy == <<"sorting is allowed only by created_at or price">>
ErrInvalidSortOrder == <<"sort order must be ASC or DESC">>
ErrInvalidTitleLength == <<"title must be 2 to 100 characters long">>
ErrInvalidTextLength == <<"text must be 1 to 2000 characters long">>
ErrInvalidImageURL == <<"malformed image URL">>
ErrInvalidPrice == <<"price must be between 1 and 100 000 000">>
ErrInvalidOwnerID == <<"invalid user identifier">>

ZeroAd ==
    [ID |-> 0, Title |-> EmptyStr, Text |-> EmptyStr, ImageURL |-> EmptyURL, Price |-> 0,
     UserID |-> 0, Author |-> "", IsMine |-> FALSE, CreatedAt |-> 0]

validateAd(ad) ==
    LET title == TrimSpace(ad.Title)
        text == TrimSpace(ad.Text)
    IN  IF GoLen(title) < minTitleLength \/ GoLen(title) > maxTitleLength
        THEN ErrInvalidTitleLength
        ELSE IF GoLen(text) = 0 \/ GoLen(text) > maxTextLength
        THEN ErrInvalidTextLength
        ELSE IF ad.ImageURL # EmptyURL /\ ParseRequestURI(ad.ImageURL) # Nil
        THEN ErrInvalidImageURL
        ELSE IF ad.Price < minPrice \/ ad.Price > maxPrice
        THEN ErrInvalidPrice
        ELSE IF ad.UserID <= 0
        THEN ErrInvalidOwnerID
        ELSE Nil

\* Assignment of a string to a VARCHAR(limit) column: a longer string is an
\* error unless the characters past the limit are all spaces, which are cut.
VarcharStore(s, limit) ==
    IF CharLength(s) <= limit THEN [ok |-> TRUE, val |-> s]
    ELSE IF s.lead + s.n <= limit /\ s.n > 0
    THEN [ok |-> TRUE, val |-> [s EXCEPT !.trail = limit - s.lead - s.n]]
    ELSE IF s.n = 0
    THEN [ok |-> TRUE, val |-> Str(limit, 0, 1, 0)]
    ELSE [ok |-> FALSE, val |-> s]

QueryGetUserByIdColumns == <<"id", "login", "created_at">>
QueryCreateAdReturning ==
    <<"id", "title", "text", "image_url", "price", "user_id", "created_at", "login", "is_mine">>
\* the destinations of CreateAd's Scan with the last one, &createdAd.IsMine, left out
AdDestsWithoutIsMine ==
    <<"ID", "Title", "Text", "ImageURL", "Price", "UserID", "CreatedAt", "Author">>

\* the destinations of CreateAd's Scan
AdDests ==
    <<"ID", "Title", "Text", "ImageURL", "Price", "UserID", "CreatedAt", "Author", "IsMine">>

\* The INSERT of an ad into a table without the foreign key on user_id
InsertAdNoForeignKey(us, as, seq, ad, t, up, seqBurn) ==
    LET fail(q, e) == [ads |-> as, seq |-> q, ad |-> ZeroAd, err |-> <<"failed to create ad">> \o e]
        id == seq + 1
        title == VarcharStore(ad.Title, TitleColumnLen)
        row == [id |-> id, title |-> title.val, text |-> ad.Text, image_url |-> ad.ImageURL,
                price |-> ad.Price, user_id |-> ad.UserID, created_at |-> t]
        owners == {u \in us : u.ID = ad.UserID}
    IN  IF ~up THEN fail(seq, ErrStore)
        ELSE IF ~title.ok
        THEN fail(IF seqBurn THEN id ELSE seq, <<"value too long for type character varying(100)">>)
        ELSE IF ad.ImageURL.chars > ImageURLColumnLen
        THEN fail(IF seqBurn THEN id ELSE seq, <<"value too long for type character varying(200)">>)
        ELSE IF owners = {}
        THEN [ads |-> as \cup {row}, seq |-> id, ad |-> ZeroAd,
              err |-> <<"failed to create ad", "cannot scan NULL into *string">>]
        ELSE [ads |-> as \cup {row}, seq |-> id,
              ad |-> [ID |-> id, Title |-> row.title, Text |-> row.text,
                      ImageURL |-> row.image_url, Price |-> row.price,
                      UserID |-> row.user_id,
                      Author |-> (CHOOSE u \in owners : TRUE).Login,
                      IsMine |-> (row.user_id = ad.UserID), CreatedAt |-> t],
              err |-> Nil]

\* The second statement of CreateAd and its Scan: INSERT INTO ads ...
\* RETURNING the row, the owner's login and is_mine.  The table refuses a
\* title or image URL too long for its column, and an owner id that is no
\* user's id (user_id REFERENCES users(id)).
InsertAd(us, as, seq, ad, t, up, seqBurn) ==
    LET fail(q, e) == [ads |-> as, seq |-> q, ad |-> ZeroAd, err |-> <<"failed to create ad">> \o e]
        id == seq + 1
        title == VarcharStore(ad.Title, TitleColumnLen)
        row == [id |-> id, title |-> title.val, text |-> ad.Text, image_url |-> ad.ImageURL,
                price |-> ad.Price, user_id |-> ad.UserID, created_at |-> t]
        owners == {u \in us : u.ID = ad.UserID}
        scanAd == ScanErr(QueryCreateAdReturning, AdDests)
    IN  IF ~up THEN fail(seq, ErrStore)
        ELSE IF ~title.ok
        THEN fail(IF seqBurn THEN id ELSE seq, <<"value too long for type character varying(100)">>)
        ELSE IF ad.ImageURL.chars > ImageURLColumnLen
        THEN fail(IF seqBurn THEN id ELSE seq, <<"value too long for type character varying(200)">>)
        ELSE IF owners = {}
        THEN fail(id, <<"violates foreign key constraint">>)
        ELSE IF scanAd # Nil
        THEN [ads |-> as \cup {row}, seq |-> id, ad |-> ZeroAd,
              err |-> <<"failed to create ad">> \o scanAd]
        ELSE [ads |-> as \cup {row}, seq |-> id,
              ad |-> [ID |-> id, Title |-> row.title, Text |-> row.text,
                      ImageURL |-> row.image_url, Price |-> row.price,
                      UserID |-> row.user_id,
                      Author |-> (CHOOSE u \in owners : TRUE).Login,
                      IsMine |-> (row.user_id = ad.UserID), CreatedAt |-> t],
              err |-> Nil]

\* The first statements of CreateAd: validateAd, then SELECT id, login,
\* created_at FROM users WHERE id = $1 and its Scan.  Result: the error.
VerifyOwner(us, ad, up) ==
    LET v == validateAd(ad)
        scanUser == ScanErr(QueryGetUserByIdColumns, <<"ID", "Login", "CreatedAt">>)
    IN  IF v # Nil THEN v
        ELSE IF ~up THEN <<"failed to verify user">> \o ErrStore
        ELSE IF ~\E u \in us : u.ID = ad.UserID THEN ErrUserNotFound
        ELSE IF scanUser # Nil THEN <<"failed to verify user">> \o scanUser
        ELSE Nil

\* CreateAd that inserts without looking the owner up, leaving the owner to
\* the foreign key of ads.user_id
CreateAdNoOwnerCheck(us, as, seq, ad, t, store, seqBurn) ==
    IF validateAd(ad) # Nil
    THEN [ads |-> as, seq |-> seq, ad |-> ZeroAd, err |-> validateAd(ad)]
    ELSE InsertAd(us, as, seq, ad, t, store = "up", seqBurn)

\* DBService.CreateAd, both statements answered from the same state of the
\* tables; the store answers them all ("up"), answers none ("down") or is
\* lost after the first ("lost").  Result: the table, the sequence, the returned Ad and the error.
CreateAd(us, as, seq, ad, t, store, seqBurn) ==
    LET verified == VerifyOwner(us, ad, store # "down")
    IN  IF verified # Nil
        THEN [ads |-> as, seq |-> seq, ad |-> ZeroAd, err |-> verified]
        ELSE InsertAd(us, as, seq, ad, t, store = "up", seqBurn)

\* The sort check of Ads with the order compared without regard to case
SortCheckFolded(sortBy, sortOrder) ==
    IF sortBy # "created_at" /\ sortBy # "price" THEN ErrInvalidSortBy
    ELSE IF sortOrder \notin {"ASC", "DESC", "asc", "desc"} THEN ErrInvalidSortOrder
    ELSE Nil

\* The first statements of Ads: the two sort parameters against their lists
SortCheck(sortBy, sortOrder) ==
    IF sortBy # "created_at" /\ sortBy # "price" THEN ErrInvalidSortBy
    ELSE IF sortOrder # "ASC" /\ sortOrder # "DESC" THEN ErrInvalidSortOrder
    ELSE Nil

\* The offset taken as page * size
OffsetByPage(page, size) == page * size

Offset(page, size) == (page - 1) * size

\* fmt.Sprintf(QueryGetAds, sortBy, sortOrder): the ORDER BY clause of the text
NoQuery == <<>>
QueryGetAds(sortBy, sortOrder) == <<"ORDER BY a.", sortBy, " ", sortOrder>>

\* FROM ads a JOIN users u ON a.user_id = u.id WHERE a.price >= $2 AND a.price <= $3
AdsMatching(us, as, minP, maxP) ==
    {a \in as : (\E u \in us : u.ID = a.user_id) /\ a.price >= minP /\ a.price <= maxP}

SortKey(a, sortBy) == IF sortBy = "price" THEN a.price ELSE a.created_at

\* ORDER BY that sorts ascending whatever the order asked for
OrderingsAscending(rows, sortBy, sortOrder) ==
    { f \in [1..Cardinality(rows) -> rows] :
        /\ \A i, j \in DOMAIN f : i # j => f[i] # f[j]
        /\ \A i, j \in DOMAIN f : i < j => SortKey(f[i], sortBy) <= SortKey(f[j], sortBy) }

\* ORDER BY a.<sortBy> <sortOrder>: the orders in which the store may return
\* the rows; rows with equal keys come in any order.
Orderings(rows, sortBy, sortOrder) ==
    { f \in [1..Cardinality(rows) -> rows] :
        /\ \A i, j \in DOMAIN f : i # j => f[i] # f[j]
        /\ \A i, j \in DOMAIN f : i < j =>
              IF sortOrder = "DESC"
              THEN SortKey(f[i], sortBy) >= SortKey(f[j], sortBy)
              ELSE SortKey(f[i], sortBy) <= SortKey(f[j], sortBy) }

\* the orders the store may choose from for a call of Ads
QueryOrderings(us, as, sortBy, sortOrder, minP, maxP) ==
    Orderings(AdsMatching(us, as, minP, maxP), sortBy, sortOrder)

\* Ads that reports every ad as the requesting user's own
AdsIsMineOfOwner(us, as, userID, page, size, sortBy, sortOrder, minP, maxP, store, full) ==
    LET bad == SortCheck(sortBy, sortOrder)
        offset == Offset(page, size)
        query == QueryGetAds(sortBy, sortOrder)
        args == <<userID, minP, maxP, size, offset>>
        fail(e) == [ads |-> <<>>, err |-> <<"failed to query ads">> \o e, query |-> query,
                    args |-> args]
        last == IF offset + size < Len(full) THEN offset + size ELSE Len(full)
        rows == IF offset >= Len(full) THEN <<>> ELSE SubSeq(full, offset + 1, last)
        scan(a) == [ID |-> a.id, Title |-> a.title, Text |-> a.text, ImageURL |-> a.image_url,
                    Price |-> a.price, UserID |-> a.user_id,
                    Author |-> (CHOOSE u \in us : u.ID = a.user_id).Login,
                    IsMine |-> TRUE, CreatedAt |-> a.created_at]
    IN  IF bad # Nil THEN [ads |-> <<>>, err |-> bad, query |-> NoQuery, args |-> NoQuery]
        ELSE IF store # "up" THEN fail(ErrStore)
        ELSE IF size < 0 THEN fail(<<"LIMIT must not be negative">>)
        ELSE IF offset < 0 THEN fail(<<"OFFSET must not be negative">>)
        ELSE IF ScanErr(QueryCreateAdReturning, AdDests) # Nil
        THEN fail(ScanErr(QueryCreateAdReturning, AdDests))
        ELSE [ads |-> [i \in 1..Len(rows) |-> scan(rows[i])], err |-> Nil, query |-> query,
              args |-> args]

\* DBService.Ads; full is the order the store produced for the matching rows.
\* Result: the ads, the error, and the query text and arguments ($1..$5) sent.
Ads(us, as, userID, page, size, sortBy, sortOrder, minP, maxP, store, full) ==
    LET bad == SortCheck(sortBy, sortOrder)
        offset == Offset(page, size)
        query == QueryGetAds(sortBy, sortOrder)
        args == <<userID, minP, maxP, size, offset>>
        fail(e) == [ads |-> <<>>, err |-> <<"failed to query ads">> \o e, query |-> query,
                    args |-> args]
        last == IF offset + size < Len(full) THEN offset + size ELSE Len(full)
        rows == IF offset >= Len(full) THEN <<>> ELSE SubSeq(full, offset + 1, last)
        scan(a) == [ID |-> a.id, Title |-> a.title, Text |-> a.text, ImageURL |-> a.image_url,
                    Price |-> a.price, UserID |-> a.user_id,
                    Author |-> (CHOOSE u \in us : u.ID = a.user_id).Login,
                    IsMine |-> (a.user_id = userID), CreatedAt |-> a.created_at]
    IN  IF bad # Nil THEN [ads |-> <<>>, err |-> bad, query |-> NoQuery, args |-> NoQuery]
        ELSE IF store # "up" THEN fail(ErrStore)
        ELSE IF size < 0 THEN fail(<<"LIMIT must not be negative">>)
        ELSE IF offset < 0 THEN fail(<<"OFFSET must not be negative">>)
        ELSE IF ScanErr(QueryCreateAdReturning, AdDests) # Nil
        THEN fail(ScanErr(QueryCreateAdReturning, AdDests))
        ELSE [ads |-> [i \in 1..Len(rows) |-> scan(rows[i])], err |-> Nil, query |-> query,
              args |-> args]

----------------------------------------------------------------------------
(* The ad service *)

DefaultSortBy == "created_at"
DefaultSortOrder == "DESC"
DefaultMaxPrice == 100000000

\* AdService.CreateAd: the request's fields and the caller's id, as an Ad
AdServiceCreateAd(us, as, seq, r, userID, t, store, seqBurn) ==
    CreateAd(us, as, seq,
             [ZeroAd EXCEPT !.Title = r.Title, !.Text = r.Text, !.ImageURL = r.ImageURL,
                            !.Price = r.Price, !.UserID = userID],
             t, store, seqBurn)

\* The defaults without the one for a zero maxPrice
WithDefaultsZeroMaxPrice(r) ==
    [r EXCEPT !.SortBy = IF @ = "" THEN DefaultSortBy ELSE @,
              !.SortOrder = IF @ = "" THEN DefaultSortOrder ELSE @]

\* The defaults GetAds puts in place of the zero values of the request
WithDefaults(r) ==
    [r EXCEPT !.SortBy = IF @ = "" THEN DefaultSortBy ELSE @,
              !.SortOrder = IF @ = "" THEN DefaultSortOrder ELSE @,
              !.MaxPrice = IF @ = 0 THEN DefaultMaxPrice ELSE @]

\* AdService.GetAds: the defaults, then DBService.Ads
GetAds(us, as, r, userID, store, full) ==
    LET d == WithDefaults(r)
    IN  Ads(us, as, userID, d.Page, d.PageSize, d.SortBy, d.SortOrder, d.MinPrice, d.MaxPrice,
            store, full)

----------------------------------------------------------------------------
(* The HTTP handlers of /ads and the middleware in front of them *)

ErrTokenRequired == "token required"
ErrInvalidTokenMsg == "invalid token"
ErrUnauthorized == "unauthorized"

\* The value of the X-Auth-Token header: white space, token text, white
\* space.  A request without the header reads as the empty value.
HeaderValue(lead, tokens, trail) == [lead |-> lead, tokens |-> tokens, trail |-> trail]
NoHeader == HeaderValue(0, <<>>, 0)

\* strings.TrimSpace on the header value
TrimHeader(h) == HeaderValue(0, h.tokens, 0)

\* the trimmed value as a token string: one token, or text that is not a JWT
TokenString(h) ==
    IF h.lead = 0 /\ h.trail = 0 /\ Len(h.tokens) = 1 THEN h.tokens[1] ELSE NoToken

\* AuthMiddleware that does not stop the chain when ValidateToken fails
AuthMiddlewareNoAbort(header, secret, t1, t2) ==
    LET v == ValidateToken(secret, TokenString(TrimHeader(header)), t1, t2)
    IN  IF header = NoHeader
        THEN [next |-> FALSE, status |-> 401, error |-> ErrTokenRequired, ctx |-> [set |-> FALSE, userID |-> 0],
              validated |-> FALSE, id |-> 0, err |-> Nil]
        ELSE [next |-> TRUE, status |-> 200, error |-> "",
              ctx |-> [set |-> TRUE, userID |-> v.id], validated |-> TRUE,
              id |-> v.id, err |-> v.err]

\* Handler.AuthMiddleware: whether the chain goes on, the response when it
\* does not, the context, and what ValidateToken returned when it was called
AuthMiddleware(header, secret, t1, t2) ==
    LET v == ValidateToken(secret, TokenString(TrimHeader(header)), t1, t2)
    IN  IF header = NoHeader
        THEN [next |-> FALSE, status |-> 401, error |-> ErrTokenRequired, ctx |-> [set |-> FALSE, userID |-> 0],
              validated |-> FALSE, id |-> 0, err |-> Nil]
        ELSE IF v.err # Nil
        THEN [next |-> FALSE, status |-> 401, error |-> ErrInvalidTokenMsg, ctx |-> [set |-> FALSE, userID |-> 0],
              validated |-> TRUE, id |-> v.id, err |-> v.err]
        ELSE [next |-> TRUE, status |-> 200, error |-> "",
              ctx |-> [set |-> TRUE, userID |-> v.id], validated |-> TRUE,
              id |-> v.id, err |-> Nil]

\* The body of POST /ads: whether it is JSON, and the fields it gives; a field
\* left out has its zero value.
JSONBody(title, text, imageURL, price) ==
    [json |-> TRUE, Title |-> title, Text |-> text, ImageURL |-> imageURL, Price |-> price]

\* c.ShouldBindJSON(&req) on a CreateAdRequest: the tags that fail, in the
\* order of the fields; strings are measured in characters, untrimmed, and
\* the url tag asks for a URL that parses and has a scheme.
BindCreateAdRequest(body) ==
    LET tag(failed, name) == IF failed THEN <<name>> ELSE <<>>
        title == IF CharLength(body.Title) = 0 THEN <<"Title:required">>
                 ELSE tag(CharLength(body.Title) < 2, "Title:min")
                      \o tag(CharLength(body.Title) > 100, "Title:max")
        text == IF CharLength(body.Text) = 0 THEN <<"Text:required">>
                ELSE tag(CharLength(body.Text) > 2000, "Text:max")
        image == IF body.ImageURL.chars = 0 THEN <<"ImageURL:required">>
                 ELSE tag(body.ImageURL.scheme = "", "ImageURL:url")
        price == IF body.Price = 0 THEN <<"Price:required">>
                 ELSE tag(body.Price < 1, "Price:gte") \o tag(body.Price > 100000000, "Price:lte")
    IN  IF ~body.json THEN <<"invalid character looking for beginning of value">>
        ELSE title \o text \o image \o price

\* Handler.CreateAd.  Result: the response, the tables, and the calls made to
\* the ad service.
HandlerCreateAd(us, as, seq, ctx, body, t, store, seqBurn) ==
    LET bind == BindCreateAdRequest(body)
        r == AdServiceCreateAd(us, as, seq,
                 [kind |-> "ad", Title |-> body.Title, Text |-> body.Text,
                  ImageURL |-> body.ImageURL, Price |-> body.Price, UserID |-> ctx.userID],
                 ctx.userID, t, store, seqBurn)
        stop(status, e) == [status |-> status, error |-> e, body |-> <<>>, ads |-> as,
                            seq |-> seq, serviceCalls |-> <<>>]
    IN  IF ~ctx.set THEN stop(401, <<ErrUnauthorized>>)
        ELSE IF bind # Nil THEN stop(400, bind)
        ELSE [status |-> IF r.err # Nil THEN 400 ELSE 200,
              error |-> r.err,
              body |-> IF r.err # Nil THEN <<>> ELSE <<r.ad>>,
              ads |-> r.ads, seq |-> r.seq,
              serviceCalls |-> <<[fn |-> "CreateAd", userID |-> ctx.userID]>>]

\* A query parameter: left out, or given as a decimal number or as other text
QAbsent == [given |-> FALSE, numeric |-> FALSE, n |-> 0, text |-> ""]
QueryValue(numeric, n, text) == [given |-> TRUE, numeric |-> numeric, n |-> n, text |-> text]

\* strconv.Atoi and strconv.ParseInt with the error dropped: 0 for what is
\* not a number
Atoi(v) == IF v.numeric THEN v.n ELSE 0

\* c.DefaultQuery(key, default)
DefaultQuery(v, default) == IF v.given THEN v ELSE default

\* Handler.Ads up to the call of the service: the GetAdsRequest it builds
ParseAdsQuery(q) ==
    [Page |-> Atoi(DefaultQuery(q.page, QueryValue(TRUE, 1, ""))),
     PageSize |-> Atoi(DefaultQuery(q.page_size, QueryValue(TRUE, 10, ""))),
     SortBy |-> DefaultQuery(q.sort_by, QueryValue(FALSE, 0, "created_at")).text,
     SortOrder |-> DefaultQuery(q.sort_order, QueryValue(FALSE, 0, "DESC")).text,
     MinPrice |-> Atoi(q.min_price),
     MaxPrice |-> Atoi(q.max_price)]

\* Handler.Ads.  Result: the response, the calls made to the ad service, the
\* request handed to it and the query the store was sent.
HandlerAds(us, as, ctx, q, store, full) ==
    LET request == ParseAdsQuery(q)
        r == GetAds(us, as, request, ctx.userID, store, full)
    IN  IF ~ctx.set
        THEN [status |-> 401, error |-> <<ErrUnauthorized>>, body |-> <<>>,
              serviceCalls |-> <<>>, request |-> request, query |-> NoQuery,
              args |-> NoQuery]
        ELSE [status |-> IF r.err # Nil THEN 400 ELSE 200,
              error |-> r.err,
              body |-> r.ads,
              serviceCalls |-> <<[fn |-> "GetAds", userID |-> ctx.userID]>>,
              request |-> request, query |-> r.query, args |-> r.args]

----------------------------------------------------------------------------
(* Clock values the model visits *)

\* the first seconds of the run
NearClock == T0 .. T0 + MaxTicks
\* the first seconds, and the seconds around the expiry of a token issued then
FarClock == NearClock \cup (T0 + TokenTTL - 1 .. T0 + TokenTTL + MaxTicks + 1)

\* time.Now() moves on: the clock advances to a later instant of the set
Tick(clock) ==
    /\ \E t \in clock : t > now /\ now' = t
    /\ UNCHANGED <<users, userSeq, tok, res>>
    /\ UNCHANGED adVars

----------------------------------------------------------------------------
(* Calls of the auth service *)

Idle == [op |-> "none"]

RegisterCall ==
    \E login \in Logins, password \in Passwords, salt \in Salts, dbOK \in BOOLEAN :
      \E seqBurn \in (IF Len(login) > MaxLoginLen THEN BOOLEAN ELSE {FALSE}) :
        LET r == Register(users, userSeq, login, password, salt, now, dbOK, seqBurn)
        IN  /\ r.seq <= MaxSeq
            /\ users' = r.users
            /\ userSeq' = r.seq
            /\ res' = [op |-> "Register", login |-> login, password |-> password,
                       user |-> r.user, err |-> r.err]
            /\ UNCHANGED <<now, tok>>
            /\ UNCHANGED adVars

AuthenticateCall ==
    \E login \in Logins, password \in Passwords, dbOK \in BOOLEAN :
        LET r == Authenticate(users, Secret, login, password, now, dbOK)
        IN  /\ res' = [op |-> "Authenticate", login |-> login, password |-> password,
                       token |-> r.token, err |-> r.err, at |-> now]
            /\ tok' = IF r.err = Nil THEN r.token ELSE tok
            /\ UNCHANGED <<users, userSeq, now>>
        /\ UNCHANGED adVars
            /\ UNCHANGED adVars

\* ValidateToken on a token string; the clock may move between its two reads.
ValidateTokenOf(tokenString, clock) ==
    \E d \in 0..MaxDrift :
        LET r == ValidateToken(Secret, tokenString, now, now + d)
        IN  /\ now + d \in clock
            /\ now' = now + d
            /\ res' = [op |-> "ValidateToken", token |-> tokenString,
                       t1 |-> now, t2 |-> now + d, id |-> r.id, err |-> r.err]
            /\ UNCHANGED <<users, userSeq, tok>>
            /\ UNCHANGED adVars

\* A token as Authenticate would build it for user id at time t, signed with key
TokenFor(id, key, t) == IssueToken([ZeroUser EXCEPT !.ID = id], key, t)

\* ValidateToken on a token string a client may present to the running service
ValidateTokenCall ==
    \E t \in {MalformedToken, TokenFor(1, Secret, T0), TokenFor(1, OtherSecret, T0)}
                \cup (IF tok = NoToken THEN {} ELSE {tok}) :
        ValidateTokenOf(t, NearClock)

TickNear == Tick(NearClock)

Init ==
    /\ users = {}
    /\ userSeq = 0
    /\ now = T0
    /\ tok = NoToken
    /\ res = Idle
    /\ ads = {}
    /\ adSeq = 0
    /\ req = [kind |-> "none"]
    /\ calls = <<>>

Next == RegisterCall \/ AuthenticateCall \/ ValidateTokenCall \/ TickNear

Spec == Init /\ [][Next]_vars

----------------------------------------------------------------------------
(* ValidateToken as a function of the token and the clock: the token string *)
(* is drawn at the start from every combination of the claim values below,  *)
(* signed under each algorithm and key.                                     *)

ForgedTokens ==
    {MalformedToken} \cup
    { SignedString(NewWithClaims(k[1],
          [user_id |-> uid, iat |-> iat, nbf |-> nbf, exp |-> exp, iss |-> iss, aud |-> aud]),
          k[2]) :
        uid \in {Absent, GoString("1"), GoFloat64(-1, FALSE), GoFloat64(0, FALSE),
                 GoFloat64(0, TRUE), GoFloat64(1, FALSE), GoFloat64(2, FALSE)},
        iat \in {Absent, GoInt64(T0), GoInt64(T0 + IatSkew), GoInt64(T0 + IatSkew + 1),
                 GoInt64(T0 + IatSkew + 2)},
        nbf \in {Absent, GoString("today"), GoInt64(T0), GoInt64(T0 + 1)},
        exp \in {Absent, GoString("tomorrow"), GoInt64(0), GoInt64(T0 - 1), GoInt64(T0),
                 GoInt64(T0 + 1), GoInt64(T0 + TokenTTL)},
        iss \in {GoString(Issuer), GoString("wrong-issuer"), Absent},
        aud \in {GoString(Audience), GoString("other-api"), Absent},
        k \in {<<"HS256", Secret>>, <<"HS256", OtherSecret>>, <<"HS384", Secret>>,
               <<"none", "">>} }

InitValidate ==
    /\ users = {}
    /\ userSeq = 0
    /\ now = T0
    /\ tok \in ForgedTokens
    /\ res = Idle
    /\ ads = {}
    /\ adSeq = 0
    /\ req = [kind |-> "none"]
    /\ calls = <<>>

ValidatePresented == ValidateTokenOf(tok, NearClock)

NextValidate == ValidatePresented \/ TickNear

SpecValidate == InitValidate /\ [][NextValidate]_vars

----------------------------------------------------------------------------
(* The token Authenticate builds once the user row is fetched and the       *)
(* password verified, and its validation around its expiry.                 *)

\* one user is stored, registered with a password of an accepted length
InitIssue ==
    /\ \E id \in 1..MaxSeq, login \in {"alice", "bob"}, salt \in Salts :
       \E pw \in {p \in Passwords : PasswordLen(p) \in MinPasswordLen..MaxPasswordLen} :
          /\ users = {[ID |-> id, Login |-> login,
                       Password |-> GenerateFromPassword(pw, salt), CreatedAt |-> T0]}
          /\ userSeq = id
    /\ now = T0
    /\ tok = NoToken
    /\ res = Idle
    /\ ads = {}
    /\ adSeq = 0
    /\ req = [kind |-> "none"]
    /\ calls = <<>>

\* Authenticate from the construction of the claims on, for a fetched row
IssueCall ==
    \E u \in users :
        /\ tok' = IssueToken(u, Secret, now)
        /\ res' = [op |-> "Issue", user |-> u, token |-> tok', at |-> now]
        /\ UNCHANGED <<users, userSeq, now>>
        /\ UNCHANGED adVars

ValidateIssued == tok # NoToken /\ ValidateTokenOf(tok, FarClock)


NextIssue == IssueCall \/ ValidateIssued \/ Tick(FarClock)

SpecIssue == InitIssue /\ [][NextIssue]_vars

----------------------------------------------------------------------------
(* Register calls running concurrently, one per pooled connection.  A call  *)
(* touches the store in one statement, the INSERT of CreateUser, which the  *)
(* store runs atomically; everything before it is local to the call.        *)

\* the two connections whose calls run at the same time
Conns == {"conn-1", "conn-2"}

IdleCall ==
    [pc |-> "idle", login |-> "", password |-> Bytes(0, 0), salt |-> "",
     user |-> ZeroUser, err |-> Nil, saw |-> {}]

InitConcurrent ==
    /\ users = {}
    /\ userSeq = 0
    /\ now = T0
    /\ tok = NoToken
    /\ res = Idle
    /\ ads = {}
    /\ adSeq = 0
    /\ req = [kind |-> "none"]
    /\ calls = [p \in Conns |-> IdleCall]

\* a handler goroutine enters Register; saw records the calls it overlaps
RegisterBegin ==
    \E p \in Conns, login \in Logins, password \in Passwords, salt \in Salts :
        LET running == {q \in Conns : calls[q].pc = "called"}
        IN  /\ calls[p].pc = "idle"
            /\ calls' = [q \in Conns |->
                    IF q = p
                    THEN [IdleCall EXCEPT !.pc = "called", !.login = login,
                                          !.password = password, !.salt = salt,
                                          !.saw = running]
                    ELSE IF q \in running
                    THEN [calls[q] EXCEPT !.saw = @ \cup {p}]
                    ELSE calls[q]]
            /\ UNCHANGED <<users, userSeq, now, tok, res, ads, adSeq, req>>

\* the call runs to its return: the length check, the hash, the INSERT
RegisterRun ==
    \E p \in Conns, dbOK \in BOOLEAN :
      \E seqBurn \in (IF Len(calls[p].login) > MaxLoginLen THEN BOOLEAN ELSE {FALSE}) :
        LET c == calls[p]
            r == Register(users, userSeq, c.login, c.password, c.salt, now, dbOK, seqBurn)
        IN  /\ c.pc = "called"
            /\ r.seq <= MaxSeq
            /\ users' = r.users
            /\ userSeq' = r.seq
            /\ calls' = [calls EXCEPT ![p] = [c EXCEPT !.pc = "done", !.user = r.user,
                                                       !.err = r.err]]
            /\ UNCHANGED <<now, tok, res, ads, adSeq, req>>

\* the caller has taken the result; the connection is free for another call
RegisterReturn ==
    \E p \in Conns :
        /\ calls[p].pc = "done"
        /\ calls' = [q \in Conns |->
                IF q = p THEN IdleCall ELSE [calls[q] EXCEPT !.saw = @ \ {p}]]
        /\ UNCHANGED <<users, userSeq, now, tok, res, ads, adSeq, req>>

NextConcurrent == RegisterBegin \/ RegisterRun \/ RegisterReturn

SpecConcurrent == InitConcurrent /\ [][NextConcurrent]_vars

----------------------------------------------------------------------------
(* CreateAd as a function of the ad: the request is drawn at the start from *)
(* every combination of the field values below; two users are registered.   *)

MaxAdSeq == 2       \* the ads.id sequence is not advanced past this
MaxArgs == 2        \* arguments on the command line of the process
MaxInflight == 5    \* requests the HTTP server has in flight at once

SeededUsers ==
    { [ID |-> 1, Login |-> "alice", Password |-> GenerateFromPassword(Bytes(MinPasswordLen, 1), "salt-1"),
       CreatedAt |-> T0],
      [ID |-> 2, Login |-> "bob", Password |-> GenerateFromPassword(Bytes(MaxPasswordLen, 1), "salt-1"),
       CreatedAt |-> T0] }

AdRequests ==
    [kind : {"ad"},
     Title : { EmptyStr, Str(0, 1, 1, 0), Str(1, 1, 1, 1), Str(0, 1, 2, 0), Str(0, 2, 1, 0),
               Str(0, maxTitleLength, 1, 0), Str(0, maxTitleLength + 1, 1, 0),
               Str(0, 51, 2, 0), Str(0, maxTitleLength, 1, 1), Str(1, maxTitleLength, 1, 0) },
     Text : { EmptyStr, Str(1, 0, 1, 0), Str(0, 1, 1, 0), Str(0, maxTextLength, 1, 0),
              Str(0, maxTextLength + 1, 1, 0), Str(0, 1001, 2, 0) },
     ImageURL : { EmptyURL, URLString("https", TRUE, 29), URLString("", FALSE, 9),
                  URLString("", TRUE, 13), URLString("https", TRUE, ImageURLColumnLen + 1) },
     Price : {0, minPrice, 1000, maxPrice, maxPrice + 1},
     UserID : {-1, 0, 1, 2, 999999}]

\* the row of an ad that bob created at T0
SeededAd ==
    [id |-> 1, title |-> Str(0, 3, 1, 0), text |-> Str(0, 6, 1, 0),
     image_url |-> EmptyURL, price |-> 2000, user_id |-> 2, created_at |-> T0]

\* the ads table is empty or holds the seeded ad
InitCreateAd ==
    /\ users = SeededUsers
    /\ userSeq = 2
    /\ now = T0
    /\ tok = NoToken
    /\ res = Idle
    /\ \E seeded \in BOOLEAN :
          /\ ads = IF seeded THEN {SeededAd} ELSE {}
          /\ adSeq = IF seeded THEN 1 ELSE 0
    /\ req \in AdRequests
    /\ calls = <<>>

\* AdService.CreateAd for the request, on behalf of its owner id
CreateAdCall ==
    \E store \in {"up", "down", "lost"} :
      \E seqBurn \in (IF ~VarcharStore(req.Title, TitleColumnLen).ok
                         \/ req.ImageURL.chars > ImageURLColumnLen
                      THEN BOOLEAN ELSE {FALSE}) :
        LET r == AdServiceCreateAd(users, ads, adSeq, req, req.UserID, now, store, seqBurn)
        IN  /\ r.seq <= MaxAdSeq
            /\ ads' = r.ads
            /\ adSeq' = r.seq
            /\ res' = [op |-> "CreateAd", ad |-> req, out |-> r.ad, err |-> r.err]
            /\ UNCHANGED <<users, userSeq, now, tok, req, calls>>

NextCreateAd == CreateAdCall \/ TickNear

SpecCreateAd == InitCreateAd /\ [][NextCreateAd]_vars

----------------------------------------------------------------------------
(* CreateAd statement by statement, with other clients of the store deleting *)
(* users between its statements.  calls holds the position of the call.      *)

InitOwner ==
    /\ users = SeededUsers
    /\ userSeq = 2
    /\ now = T0
    /\ tok = NoToken
    /\ res = Idle
    /\ \E seeded \in BOOLEAN :
          /\ ads = IF seeded THEN {SeededAd} ELSE {}
          /\ adSeq = IF seeded THEN 1 ELSE 0
    /\ req \in {r \in AdRequests : r.Title = Str(0, 2, 1, 0) /\ r.Text = Str(0, 1, 1, 0)}
    /\ calls = [pc |-> "idle"]

\* validateAd and the SELECT of the owner
CreateAdVerify ==
    \E up \in BOOLEAN :
        LET e == VerifyOwner(users, req, up)
        IN  /\ calls.pc = "idle"
            /\ adSeq < MaxAdSeq
            /\ IF e # Nil
               THEN /\ res' = [op |-> "CreateAd", ad |-> req, out |-> ZeroAd, err |-> e]
                    /\ UNCHANGED calls
               ELSE /\ calls' = [pc |-> "verified"]
                    /\ UNCHANGED res
            /\ UNCHANGED <<users, userSeq, now, tok, ads, adSeq, req>>

\* the INSERT, on the tables as they are by then
CreateAdInsert ==
    \E up \in BOOLEAN :
      \E seqBurn \in (IF req.ImageURL.chars > ImageURLColumnLen THEN BOOLEAN ELSE {FALSE}) :
        LET r == InsertAd(users, ads, adSeq, req, now, up, seqBurn)
        IN  /\ calls.pc = "verified"
            /\ ads' = r.ads
            /\ adSeq' = r.seq
            /\ res' = [op |-> "CreateAd", ad |-> req, out |-> r.ad, err |-> r.err]
            /\ calls' = [pc |-> "idle"]
            /\ UNCHANGED <<users, userSeq, now, tok, req>>

\* DELETE FROM users WHERE id = $1, sent by another client of the store; ads
\* is declared with user_id REFERENCES users(id) ON DELETE CASCADE
DeleteUser ==
    \E u \in users :
        /\ users' = users \ {u}
        /\ ads' = {a \in ads : a.user_id # u.ID}
        /\ res' = [op |-> "DeleteUser", id |-> u.ID]
        /\ UNCHANGED <<userSeq, now, tok, adSeq, req, calls>>

NextOwner == CreateAdVerify \/ CreateAdInsert \/ DeleteUser \/ TickNear

SpecOwner == InitOwner /\ [][NextOwner]_vars

----------------------------------------------------------------------------
(* Register and CreateAd under the caller's context: the call does its      *)
(* checks, then sends its statements one at a time with QueryRow(ctx, ...)   *)
(* and reads each answer with Scan; the context's Done signal may fire at    *)
(* any point of the call.  calls holds the call: its position, the statement *)
(* it is at, the signal and where it fired, the error to return and the      *)
(* tables as they were when the call began.                                  *)

NoCall ==
    [pc |-> "idle", stmt |-> 0, signal |-> "", firedAt |-> "", err |-> Nil,
     users |-> {}, ads |-> {}]

InitCancel ==
    /\ now = T0
    /\ tok = NoToken
    /\ res = Idle
    /\ \E seeded \in BOOLEAN :
          /\ users = IF seeded THEN SeededUsers ELSE {}
          /\ userSeq = IF seeded THEN 2 ELSE 0
          /\ ads = IF seeded THEN {SeededAd} ELSE {}
          /\ adSeq = IF seeded THEN 1 ELSE 0
    /\ req \in [kind : {"register"}, login : Logins, password : Passwords, salt : Salts]
              \cup {r \in AdRequests :
                      /\ r.Title \in {Str(0, 1, 1, 0), Str(0, 2, 1, 0)}
                      /\ r.Text = Str(0, 1, 1, 0) /\ r.ImageURL = EmptyURL
                      /\ r.Price = 1000 /\ r.UserID \in {1, 999999}}
    /\ calls = NoCall

\* the call is made and runs up to its first store call: Register's length
\* check and hash, CreateAd's validateAd
CallBegin ==
    LET e == IF req.kind = "register"
             THEN IF Register(users, userSeq, req.login, req.password, req.salt, now,
                              FALSE, FALSE).err = ErrPasswordLength
                  THEN ErrPasswordLength ELSE Nil
             ELSE validateAd(req)
    IN  /\ calls.pc = "idle"
        /\ IF req.kind = "register" THEN userSeq < MaxSeq ELSE adSeq < MaxAdSeq
        /\ calls' = [NoCall EXCEPT !.pc = IF e # Nil THEN "return" ELSE "send",
                                   !.stmt = 1, !.err = e, !.users = users, !.ads = ads]
        /\ UNCHANGED <<users, userSeq, now, tok, res, ads, adSeq, req>>

\* ctx.Done() fires: the caller cancels, or the deadline passes
ContextDone ==
    \E signal \in {"context canceled", "context deadline exceeded"} :
        /\ calls.pc # "idle"
        /\ calls.signal = ""
        /\ calls' = [calls EXCEPT !.signal = signal, !.firedAt = calls.pc]
        /\ UNCHANGED <<users, userSeq, now, tok, res, ads, adSeq, req>>

\* pool.QueryRow(ctx, ...): with the context done nothing is sent and the
\* context's error comes back from Scan, wrapped by the call
CallSend ==
    LET wrap == IF req.kind = "register" THEN "failed to create user"
                ELSE IF calls.stmt = 1 THEN "failed to verify user"
                ELSE "failed to create ad"
    IN  /\ calls.pc = "send"
        /\ calls' = IF calls.signal # ""
                    THEN [calls EXCEPT !.pc = "return", !.err = <<wrap, calls.signal>>]
                    ELSE [calls EXCEPT !.pc = "flight"]
        /\ UNCHANGED <<users, userSeq, now, tok, res, ads, adSeq, req>>

\* CallAnswer that reads the answer of the statement whatever the context
CallAnswerIgnoringContext ==
    \E up \in BOOLEAN :
        LET registered == Register(users, userSeq, req.login, req.password, req.salt, now,
                                   up, FALSE)
            verified == VerifyOwner(users, req, up)
            inserted == InsertAd(users, ads, adSeq, req, now, up, FALSE)
            e == IF req.kind = "register" THEN registered.err
                 ELSE IF calls.stmt = 1 THEN verified ELSE inserted.err
            last == req.kind = "register" \/ calls.stmt = 2
        IN  /\ calls.pc = "flight"
            /\ users' = IF req.kind = "register" THEN registered.users ELSE users
            /\ userSeq' = IF req.kind = "register" THEN registered.seq ELSE userSeq
            /\ ads' = IF req.kind = "ad" /\ calls.stmt = 2 THEN inserted.ads ELSE ads
            /\ adSeq' = IF req.kind = "ad" /\ calls.stmt = 2 THEN inserted.seq ELSE adSeq
            /\ calls' = IF e # Nil \/ last
                        THEN [calls EXCEPT !.pc = "return", !.err = e]
                        ELSE [calls EXCEPT !.pc = "send", !.stmt = 2]
            /\ UNCHANGED <<now, tok, res, req>>

\* The statement in flight ends.  With the context not done the store's
\* answer is read: the statement took effect as a whole or failed as a whole,
\* and the call goes on or returns.  With the context done the connection is
\* interrupted and Scan returns the context's error; the store had either
\* executed the statement by then or it had not.
CallAnswer ==
    \E up \in BOOLEAN, executed \in BOOLEAN :
        LET registered == Register(users, userSeq, req.login, req.password, req.salt, now,
                                   up, FALSE)
            verified == VerifyOwner(users, req, up)
            inserted == InsertAd(users, ads, adSeq, req, now, up, FALSE)
            e == IF req.kind = "register" THEN registered.err
                 ELSE IF calls.stmt = 1 THEN verified ELSE inserted.err
            last == req.kind = "register" \/ calls.stmt = 2
            wrap == IF req.kind = "register" THEN "failed to create user"
                    ELSE IF calls.stmt = 1 THEN "failed to verify user"
                    ELSE "failed to create ad"
            effect == calls.signal = "" \/ executed
        IN  /\ calls.pc = "flight"
            /\ calls.signal = "" => executed
            /\ users' = IF effect /\ req.kind = "register" THEN registered.users ELSE users
            /\ userSeq' = IF effect /\ req.kind = "register" THEN registered.seq ELSE userSeq
            /\ ads' = IF effect /\ req.kind = "ad" /\ calls.stmt = 2 THEN inserted.ads ELSE ads
            /\ adSeq' = IF effect /\ req.kind = "ad" /\ calls.stmt = 2 THEN inserted.seq
                        ELSE adSeq
            /\ calls' = IF calls.signal # ""
                        THEN [calls EXCEPT !.pc = "return", !.err = <<wrap, calls.signal>>]
                        ELSE IF e # Nil \/ last
                        THEN [calls EXCEPT !.pc = "return", !.err = e]
                        ELSE [calls EXCEPT !.pc = "send", !.stmt = 2]
            /\ UNCHANGED <<now, tok, res, req>>

\* the call returns to its caller
CallReturn ==
    /\ calls.pc = "return"
    /\ res' = [op |-> req.kind, err |-> calls.err, signal |-> calls.signal,
               firedAt |-> calls.firedAt, newUsers |-> users \ calls.users,
               newAds |-> ads \ calls.ads]
    /\ calls' = NoCall
    /\ UNCHANGED <<users, userSeq, now, tok, ads, adSeq, req>>

NextCancel == CallBegin \/ ContextDone \/ CallSend \/ CallAnswer \/ CallReturn

\* The steps of the call itself are taken; a store call is sure to end only
\* once the context is done.
SpecCancel ==
    /\ InitCancel /\ [][NextCancel]_vars
    /\ WF_vars(CallReturn)
    /\ WF_vars(calls.signal # "" /\ (CallSend \/ CallAnswer))

----------------------------------------------------------------------------
(* Listing: the ads of the listing tests are created, any number of times,  *)
(* and Ads is called on the table; the parameters of the call are drawn at  *)
(* the start from every combination of the values below.                    *)

ListRequests ==
    [kind : {"list"}, UserID : {1, 2, 999999}, Page : {1, 2}, PageSize : {1, MaxAdSeq},
     SortBy : {"created_at", "price", "title"}, SortOrder : {"ASC", "DESC", "asc"},
     MinPrice : {0, 1500}, MaxPrice : {1000, 2500}]

InitAds ==
    /\ users = SeededUsers
    /\ userSeq = 2
    /\ now = T0
    /\ tok = NoToken
    /\ res = Idle
    /\ ads = {}
    /\ adSeq = 0
    /\ req \in ListRequests
    /\ calls = <<>>

\* AdService.CreateAd of one of the ads of the listing tests: ad1 of user1
\* at 1000 and ad2 of user2 at 2000
CreateListedAd ==
    \E ad \in [kind : {"ad"}, Title : {Str(0, 3, 1, 0)}, Text : {Str(0, 6, 1, 0)},
                ImageURL : {EmptyURL}, Price : {1000, 2000}, UserID : {1, 2}] :
      ad.Price = 1000 * ad.UserID /\
        LET r == AdServiceCreateAd(users, ads, adSeq, ad, ad.UserID, now, "up", FALSE)
        IN  /\ r.seq <= MaxAdSeq
            /\ ads' = r.ads
            /\ adSeq' = r.seq
            /\ res' = [op |-> "CreateAd", ad |-> ad, out |-> r.ad, err |-> r.err]
            /\ UNCHANGED <<users, userSeq, now, tok, req, calls>>

\* DBService.Ads with the parameters of the request
AdsCall ==
    \E store \in {"up", "down"} :
      \E full \in QueryOrderings(users, ads, req.SortBy, req.SortOrder,
                                 req.MinPrice, req.MaxPrice) :
        LET r == Ads(users, ads, req.UserID, req.Page, req.PageSize, req.SortBy,
                     req.SortOrder, req.MinPrice, req.MaxPrice, store, full)
        IN  /\ res' = [op |-> "Ads", ads |-> r.ads, err |-> r.err, query |-> r.query,
                       args |-> r.args]
            /\ UNCHANGED <<users, userSeq, now, tok, ads, adSeq, req, calls>>

NextAds == CreateListedAd \/ AdsCall \/ TickNear

SpecAds == InitAds /\ [][NextAds]_vars

----------------------------------------------------------------------------
(* Requests to POST /ads and GET /ads: the middleware, then the handler.    *)

NoQueryString ==
    [page |-> QAbsent, page_size |-> QAbsent, sort_by |-> QAbsent, sort_order |-> QAbsent,
     min_price |-> QAbsent, max_price |-> QAbsent]

\* the request the client sends, to either endpoint: the header absent,
\* blank, or carrying a token (valid, padded, of an unknown user, signed with
\* a foreign key, expired, malformed); a body; a query string
HTTPRequests ==
    [kind : {"http"},
     header : {NoHeader, HeaderValue(1, <<>>, 0), HeaderValue(1, <<TokenFor(1, Secret, T0)>>, 1)}
                 \cup {HeaderValue(0, <<t>>, 0) :
                         t \in { TokenFor(1, Secret, T0), TokenFor(2, Secret, T0),
                                 TokenFor(999999, Secret, T0), TokenFor(1, OtherSecret, T0),
                                 TokenFor(1, Secret, T0 - TokenTTL - 1), MalformedToken }},
     body : { JSONBody(Str(0, 3, 1, 0), Str(0, 6, 1, 0), URLString("https", TRUE, 29), 1000),
              JSONBody(Str(0, 3, 1, 0), Str(0, 6, 1, 0), EmptyURL, 2000),
              JSONBody(Str(0, 1, 1, 0), Str(0, 6, 1, 0), URLString("https", TRUE, 29), 1000),
              JSONBody(Str(0, 51, 2, 0), Str(0, 6, 1, 0), URLString("https", TRUE, 29), 2000),
              [JSONBody(EmptyStr, EmptyStr, EmptyURL, 0) EXCEPT !.json = FALSE] },
     query : { NoQueryString,
               [NoQueryString EXCEPT !.page = QueryValue(TRUE, 2, ""),
                                     !.page_size = QueryValue(TRUE, 1, ""),
                                     !.sort_by = QueryValue(FALSE, 0, "price"),
                                     !.sort_order = QueryValue(FALSE, 0, "ASC")],
               [NoQueryString EXCEPT !.sort_by = QueryValue(FALSE, 0, "title")],
               [NoQueryString EXCEPT !.page = QueryValue(FALSE, 0, "abc"),
                                     !.min_price = QueryValue(TRUE, 1500, ""),
                                     !.max_price = QueryValue(TRUE, 2500, "")],
               [NoQueryString EXCEPT !.sort_by = QueryValue(FALSE, 0, ""),
                                     !.sort_order = QueryValue(FALSE, 0, ""),
                                     !.min_price = QueryValue(TRUE, 1500, ""),
                                     !.max_price = QueryValue(TRUE, 2500, "")],
               [NoQueryString EXCEPT !.page_size = QueryValue(TRUE, 1000, "")],
               [NoQueryString EXCEPT !.page = QueryValue(TRUE, 0, "")],
               [NoQueryString EXCEPT !.page_size = QueryValue(FALSE, 0, "many")] }]

InitHTTP ==
    /\ users = SeededUsers
    /\ userSeq = 2
    /\ now = T0
    /\ tok = NoToken
    /\ res = Idle
    /\ \/ ads = {} /\ adSeq = 0
       \/ ads = {SeededAd} /\ adSeq = 1
    /\ req \in HTTPRequests
    /\ calls = <<>>

\* POST /ads: AuthMiddleware, then Handler.CreateAd when the chain goes on
ServeCreateAd ==
    \E d \in 0..MaxDrift, store \in {"up", "down", "lost"} :
        LET header == req.header
            body == req.body
            m == AuthMiddleware(header, Secret, now, now + d)
            h == HandlerCreateAd(users, ads, adSeq, m.ctx, body, now + d, store, FALSE)
        IN  /\ now + d \in NearClock
            /\ now' = now + d
            /\ IF m.next
               THEN /\ h.seq <= MaxAdSeq
                    /\ ads' = h.ads
                    /\ adSeq' = h.seq
                    /\ res' = [op |-> "POST /ads", header |-> header, validated |-> m.validated,
                               id |-> m.id, err |-> m.err, status |-> h.status,
                               error |-> h.error, body |-> h.body,
                               serviceCalls |-> h.serviceCalls]
               ELSE /\ UNCHANGED <<ads, adSeq>>
                    /\ res' = [op |-> "POST /ads", header |-> header, validated |-> m.validated,
                               id |-> m.id, err |-> m.err, status |-> m.status,
                               error |-> <<m.error>>, body |-> <<>>, serviceCalls |-> <<>>]
            /\ UNCHANGED <<users, userSeq, tok, req, calls>>

\* GET /ads: AuthMiddleware, then Handler.Ads when the chain goes on
ServeAds ==
    \E d \in 0..MaxDrift, store \in {"up", "down"} :
        LET header == req.header
            q == req.query
            m == AuthMiddleware(header, Secret, now, now + d)
            eff == WithDefaults(ParseAdsQuery(q))
        IN  \E full \in QueryOrderings(users, ads, eff.SortBy, eff.SortOrder,
                                       eff.MinPrice, eff.MaxPrice) :
              LET h == HandlerAds(users, ads, m.ctx, q, store, full)
              IN  /\ now + d \in NearClock
                  /\ now' = now + d
                  /\ res' = IF m.next
                        THEN [op |-> "GET /ads", header |-> header, validated |-> m.validated,
                              id |-> m.id, err |-> m.err, status |-> h.status,
                              error |-> h.error, body |-> h.body,
                              serviceCalls |-> h.serviceCalls, request |-> h.request,
                              query |-> h.query, args |-> h.args]
                        ELSE [op |-> "GET /ads", header |-> header, validated |-> m.validated,
                              id |-> m.id, err |-> m.err, status |-> m.status,
                              error |-> <<m.error>>, body |-> <<>>, serviceCalls |-> <<>>,
                              request |-> h.request, query |-> NoQuery, args |-> NoQuery]
                  /\ UNCHANGED <<users, userSeq, tok, ads, adSeq, req, calls>>

NextHTTP == ServeCreateAd \/ ServeAds \/ TickNear

SpecHTTP == InitHTTP /\ [][NextHTTP]_vars

----------------------------------------------------------------------------
(* Configuration: NewConfig reads its eight parameters one after the other.  *)
(* The environment and the command line of the process are drawn first: req  *)
(* holds them; calls holds the position in NewConfig, the flags defined so   *)
(* far on the command-line flag set, and the values already read.            *)

\* the parameters in the order NewConfig reads them
Params ==
    << [env |-> "PORT",        flag |-> "port",        default |-> "8080"],
       [env |-> "SECRET_KEY",  flag |-> "jwt-secret",  default |-> "supersecret"],
       [env |-> "API_URL",     flag |-> "api-url",     default |-> "http://localhost:8080"],
       [env |-> "PG_HOST",     flag |-> "pg-host",     default |-> "localhost"],
       [env |-> "PG_PORT",     flag |-> "pg-port",     default |-> "5432"],
       [env |-> "PG_USER",     flag |-> "pg-user",     default |-> "postgres"],
       [env |-> "PG_PASSWORD", flag |-> "pg-password", default |-> "password"],
       [env |-> "PG_DBNAME",   flag |-> "pg-dbname",   default |-> "marketgo"] >>

\* One parameter.  A non-empty environment variable is returned at once.
\* Otherwise the parameter's flag is defined on the flag set and the whole
\* command line is parsed: an argument naming a flag that is not defined yet
\* ends the process with status 2; a defined flag takes the value of its last
\* occurrence, a flag that is not given keeps its default.
configValue(env, args, defined, p) ==
    IF env[p.env] # ""
    THEN [exit |-> 0, value |-> env[p.env], defined |-> defined]
    ELSE LET d == defined \cup {p.flag}
             given == {i \in 1..Len(args) : args[i].name = p.flag}
         IN  IF \E i \in 1..Len(args) : args[i].name \notin d
             THEN [exit |-> 2, value |-> "", defined |-> d]
             ELSE [exit |-> 0, defined |-> d,
                   value |-> IF given = {} THEN p.default
                             ELSE args[CHOOSE i \in given : \A j \in given : j <= i].value]

InitConfig ==
    /\ users = {}
    /\ userSeq = 0
    /\ ads = {}
    /\ adSeq = 0
    /\ now = T0
    /\ tok = NoToken
    /\ res = Idle
    /\ \E env \in [{Params[i].env : i \in 1..Len(Params)} -> {"", "from-env"}] :
       \E n \in 0..MaxArgs :
       \E names \in [1..n -> {Params[i].flag : i \in 1..Len(Params)}] :
          req = [kind |-> "config", env |-> env,
                 args |-> [i \in 1..n |-> [name |-> names[i], value |-> "from-flag"]]]
    /\ calls = [pc |-> 1, defined |-> {}, values |-> <<>>]

\* NewConfig reads its next parameter; after the last one it returns the
\* configuration, and it does not return when the process has exited
NewConfig ==
    /\ req.kind = "config"
    /\ calls.pc \in 1..Len(Params)
    /\ LET v == configValue(req.env, req.args, calls.defined, Params[calls.pc])
           values == Append(calls.values, v.value)
       IN  /\ calls' = [pc |-> IF v.exit # 0 THEN 0 ELSE calls.pc + 1,
                        defined |-> v.defined, values |-> values]
           /\ res' = IF v.exit # 0
                     THEN [op |-> "NewConfig", exit |-> v.exit, read |-> calls.pc - 1,
                           config |-> <<>>]
                     ELSE IF calls.pc = Len(Params)
                     THEN [op |-> "NewConfig", exit |-> 0, read |-> calls.pc,
                           config |-> values]
                     ELSE res
    /\ UNCHANGED <<users, userSeq, now, tok, ads, adSeq, req>>

NextConfig == NewConfig

SpecConfig == InitConfig /\ [][NextConfig]_vars

----------------------------------------------------------------------------
(* Shutdown: main starts Server.Start in a goroutine and waits for the root  *)
(* context; Start serves until the context is done and then shuts the HTTP   *)
(* server down.  calls holds the position of main and of Start, the state of *)
(* the context, the requests in flight, the seconds spent in srv.Shutdown    *)
(* and the exit status of the process (-1 while it runs).                    *)

ShutdownTimeout == 5

InitShutdown ==
    /\ users = {}
    /\ userSeq = 0
    /\ ads = {}
    /\ adSeq = 0
    /\ now = T0
    /\ tok = NoToken
    /\ res = Idle
    /\ req = [kind |-> "serve"]
    /\ calls = [main |-> "wait", start |-> "serve", ctx |-> "", inflight |-> 0,
                elapsed |-> 0, err |-> Nil, exit |-> -1]

\* SIGINT or SIGTERM: signal.NotifyContext cancels the root context
Signal ==
    /\ req.kind = "serve" /\ calls.exit = -1
    /\ calls.ctx = ""
    /\ calls' = [calls EXCEPT !.ctx = "context canceled"]
    /\ UNCHANGED <<users, userSeq, now, tok, res, ads, adSeq, req>>

\* the HTTP server accepts a request while it listens, or answers one of the
\* requests in flight
HandleRequest ==
    /\ req.kind = "serve" /\ calls.exit = -1
    /\ \/ /\ calls.start = "serve"
          /\ calls.inflight < MaxInflight
          /\ calls' = [calls EXCEPT !.inflight = @ + 1]
       \/ /\ calls.inflight > 0
          /\ calls' = [calls EXCEPT !.inflight = @ - 1]
    /\ UNCHANGED <<users, userSeq, now, tok, res, ads, adSeq, req>>

\* main wakes from <-ctx.Done(), logs and returns: the process ends with
\* status 0, whatever its goroutines are doing
MainReturn ==
    /\ req.kind = "serve" /\ calls.exit = -1
    /\ calls.main = "wait" /\ calls.ctx # ""
    /\ calls' = [calls EXCEPT !.main = "returned", !.exit = 0]
    /\ res' = [op |-> "exit", status |-> 0, start |-> calls.start,
               inflight |-> calls.inflight, elapsed |-> calls.elapsed, err |-> calls.err]
    /\ UNCHANGED <<users, userSeq, now, tok, ads, adSeq, req>>

\* Start wakes from <-ctx.Done() and calls srv.Shutdown under a context of
\* five seconds: the listener is closed
StartShutdown ==
    /\ req.kind = "serve" /\ calls.exit = -1
    /\ calls.start = "serve" /\ calls.ctx # ""
    /\ calls' = [calls EXCEPT !.start = "shutdown", !.elapsed = 0]
    /\ UNCHANGED <<users, userSeq, now, tok, res, ads, adSeq, req>>

\* a second passes while srv.Shutdown waits for the requests in flight
ShutdownTick ==
    /\ req.kind = "serve" /\ calls.exit = -1
    /\ calls.start = "shutdown" /\ calls.elapsed < ShutdownTimeout
    /\ calls' = [calls EXCEPT !.elapsed = @ + 1]
    /\ UNCHANGED <<users, userSeq, now, tok, res, ads, adSeq, req>>

\* srv.Shutdown returns nil once no request is in flight, and the error of its
\* context once the five seconds are over; Start returns that, and on an
\* error the goroutine of main ends the process with status 1
StartReturn ==
    /\ req.kind = "serve" /\ calls.exit = -1
    /\ calls.start = "shutdown"
    /\ \/ /\ calls.inflight = 0
          /\ calls' = [calls EXCEPT !.start = "returned"]
          /\ res' = [op |-> "Start", status |-> -1, start |-> "returned",
                     inflight |-> 0, elapsed |-> calls.elapsed, err |-> Nil]
       \/ /\ calls.inflight > 0 /\ calls.elapsed = ShutdownTimeout
          /\ calls' = [calls EXCEPT !.start = "returned", !.exit = 1,
                                    !.err = <<"context deadline exceeded">>]
          /\ res' = [op |-> "exit", status |-> 1, start |-> "returned",
                     inflight |-> calls.inflight, elapsed |-> calls.elapsed,
                     err |-> <<"context deadline exceeded">>]
    /\ UNCHANGED <<users, userSeq, now, tok, ads, adSeq, req>>

NextShutdown ==
    Signal \/ HandleRequest \/ MainReturn \/ StartShutdown \/ ShutdownTick \/ StartReturn

SpecShutdown == InitShutdown /\ [][NextShutdown]_vars

----------------------------------------------------------------------------
(* Vocabulary of the properties *)

Decoded(t) == [c \in ClaimNames |-> JSONDecode(t.claims[c])]

\* signed with HS256 under the service's secret
CorrectlySigned(t) ==
    t.wellformed /\ t.alg = "HS256" /\ t.sig = Mac("HS256", Secret, t.claims)

IsNumber(v) == v.t = "float64"
\* a time claim is a whole number of seconds, or missing
TimeTyped(v) == v.t = "absent" \/ (IsNumber(v) /\ ~v.frac)

\* The six checks of a token's claims at time n, as the specification words them
ExpViolated(c, n) == ~IsNumber(c["exp"]) \/ c["exp"].n < n
NbfViolated(c, n) == IsNumber(c["nbf"]) /\ c["nbf"].n > n
IatViolated(c, n) == IsNumber(c["iat"]) /\ c["iat"].n > n + 60
IssViolated(c) == ~(c["iss"].t = "string" /\ c["iss"].s = "auth-services")
AudViolated(c) == ~(c["aud"].t = "string" /\ c["aud"].s = "marketgo-api")
SubViolated(c) == ~IsNumber(c["user_id"]) \/ FloatLeqZero(c["user_id"])

\* The errors that report each check
ExpErrors == {ErrTokenExpired, <<"token has invalid claims", "token is expired">>}
NbfErrors == {ErrTokenNotYetValid, <<"token has invalid claims", "token is not valid yet">>}

\* The error of the first violated check, in the order exp, nbf, iat, iss, aud, sub
FirstViolationErrors(c, n) ==
    IF ExpViolated(c, n) THEN ExpErrors
    ELSE IF NbfViolated(c, n) THEN NbfErrors
    ELSE IF IatViolated(c, n) THEN {ErrTokenIssuedFuture}
    ELSE IF IssViolated(c) THEN {ErrInvalidIssuer}
    ELSE IF AudViolated(c) THEN {ErrInvalidAudience}
    ELSE IF SubViolated(c) THEN {ErrInvalidUserID}
    ELSE {Nil}

StoreFailed(err) == Len(err) > 0 /\ <<err[Len(err)]>> = ErrStore

\* the stored row was registered with this login and password
RegisteredWith(u, login, password) ==
    /\ u.Login = login
    /\ \E salt \in Salts : u.Password = GenerateFromPassword(password, salt)

----------------------------------------------------------------------------
(* Properties of Register and Authenticate, under Spec *)

\* C1: Authenticate with the login and password of a registered user (password
\* of 8 to 72 bytes, store answering) succeeds and returns a token whose
\* user_id claim is the id of that user.
C1_AuthenticateAfterRegister ==
    res.op = "Authenticate" =>
        \A u \in users :
            (/\ RegisteredWith(u, res.login, res.password)
             /\ PasswordLen(res.password) \in 8..72
             /\ ~StoreFailed(res.err))
            => (/\ res.err = Nil
                /\ CorrectlySigned(res.token)
                /\ Decoded(res.token)["user_id"] = GoFloat64(u.ID, FALSE))

\* C9: Authenticate issues no token and returns an error when no user has the
\* login, and when the user exists but the password does not match the stored
\* hash; whenever it issues a token the login exists and the password matches.
C9_NoTokenWithoutCredentials ==
    res.op = "Authenticate" =>
        LET known == \E u \in users : u.Login = res.login
            match == \E u \in users :
                        u.Login = res.login /\ CompareHashAndPassword(u.Password, res.password)
            refused == res.err # Nil /\ res.token = NoToken /\ tok = NoToken
        IN  /\ ~known => refused
            /\ (known /\ ~match) => refused
            /\ (res.err = Nil \/ res.token # NoToken) => (known /\ match)

C9_Witness ==
    /\ res.op = "Authenticate"
    /\ \E u \in users :
          u.Login = res.login /\ ~CompareHashAndPassword(u.Password, res.password)
    /\ res.err # Nil
    /\ res.token = NoToken

\* C10: a Register call whose password is shorter than 8 or longer than 72
\* bytes fails with the password-length error, returns no user and leaves the
\* users table and its id sequence as they were.
C10_InvalidPasswordRejected ==
    [][ (res'.op = "Register"
            /\ (PasswordLen(res'.password) < 8 \/ PasswordLen(res'.password) > 72))
        => (/\ res'.err = <<"password must be between 8 and 72 characters">>
            /\ res'.user = ZeroUser
            /\ users' = users
            /\ userSeq' = userSeq) ]_vars

C10_Witness ==
    /\ res.op = "Register"
    /\ PasswordLen(res.password) > 72
    /\ res.err = ErrPasswordLength
    /\ users # {}

\* the error CreateUser returns for a login that is taken
ErrLoginTaken == <<"failed to create user", "duplicate key value violates unique constraint">>

\* C11: a Register call (a step that records its result; valid password, store answering) for a login that is
\* already registered fails with the duplicate-key error, which no other
\* failure of Register produces; it returns no user and leaves the table as
\* it was, with exactly one user of that login.
C11_DuplicateLoginConflict ==
    [][ (res'.op = "Register" /\ (res' # res \/ userSeq' # userSeq)) =>
          LET taken == \E u \in users : u.Login = res'.login
          IN  /\ (/\ taken
                  /\ PasswordLen(res'.password) \in 8..72
                  /\ ~StoreFailed(res'.err))
                 => (/\ res'.err = ErrLoginTaken
                     /\ res'.user = ZeroUser
                     /\ users' = users
                     /\ Cardinality({u \in users' : u.Login = res'.login}) = 1)
              /\ res'.err = ErrLoginTaken => taken ]_vars

C11_Witness ==
    /\ res.op = "Register"
    /\ res.err = ErrLoginTaken
    /\ Cardinality({u \in users : u.Login = res.login}) = 1
    /\ userSeq > Cardinality(users)

----------------------------------------------------------------------------
(* Properties of concurrent Register calls, under SpecConcurrent *)

\* C12: no two rows of the users table have the same login, and of two
\* Register calls for the same login that ran concurrently at most one
\* succeeded: the other returned an error.
C12_LoginUniqueUnderConcurrency ==
    /\ \A u, v \in users : u.Login = v.Login => u = v
    /\ \A p, q \in DOMAIN calls :
          (/\ p # q
           /\ calls[p].pc = "done" /\ calls[q].pc = "done"
           /\ q \in calls[p].saw
           /\ calls[p].login = calls[q].login)
          => (calls[p].err # Nil \/ calls[q].err # Nil)

C12_Witness ==
    \E p, q \in DOMAIN calls :
        /\ calls[p].pc = "done" /\ calls[q].pc = "done"
        /\ q \in calls[p].saw
        /\ calls[p].login = calls[q].login
        /\ calls[p].password # calls[q].password
        /\ calls[p].err = Nil
        /\ calls[q].err = ErrLoginTaken
        /\ Cardinality({u \in users : u.Login = calls[p].login}) = 1

----------------------------------------------------------------------------
(* Properties of CreateAd, under SpecCreateAd *)

\* a step in which a CreateAd call returns
CreateAdReturns == res'.op = "CreateAd" /\ (res' # res \/ adSeq' # adSeq)

IsAbsoluteURI(u) == u.scheme # ""
\* a path such as /images/a.png: no scheme, a leading slash
IsAbsolutePath(u) == u.scheme = "" /\ u.slash

\* title and text are made of one-byte characters, so that their length in
\* bytes is their length in characters
OneByteChars(ad) == ad.Title.w = 1 /\ ad.Text.w = 1

\* The five checks of an ad, as the specification words them
TitleViolated(ad) == CharLength(TrimSpace(ad.Title)) \notin 2..100
TextViolated(ad) == CharLength(TrimSpace(ad.Text)) \notin 1..2000
ImageURLViolated(ad) == ad.ImageURL.chars > 0 /\ ~IsAbsoluteURI(ad.ImageURL)
PriceViolated(ad) == ad.Price \notin 1..100000000
OwnerIDViolated(ad) == ad.UserID <= 0

\* The error of the first violated check, in the order title, text, image
\* URL, price, owner id
FirstAdViolation(ad) ==
    IF TitleViolated(ad) THEN ErrInvalidTitleLength
    ELSE IF TextViolated(ad) THEN ErrInvalidTextLength
    ELSE IF ImageURLViolated(ad) THEN ErrInvalidImageURL
    ELSE IF PriceViolated(ad) THEN ErrInvalidPrice
    ELSE IF OwnerIDViolated(ad) THEN ErrInvalidOwnerID
    ELSE Nil

AdValidationErrors ==
    {ErrInvalidTitleLength, ErrInvalidTextLength, ErrInvalidImageURL, ErrInvalidPrice,
     ErrInvalidOwnerID}

\* C14: CreateAd on an ad (title and text of one-byte characters) returns the
\* error of the first violated check in the order title, text, image URL,
\* price, owner id, and none of these errors when no check is violated.
C14_FirstAdViolationReported ==
    (res.op = "CreateAd" /\ OneByteChars(res.ad))
    => IF FirstAdViolation(res.ad) # Nil
       THEN res.err = FirstAdViolation(res.ad)
       ELSE res.err \notin AdValidationErrors

FieldValid(ad) ==
    /\ OneByteChars(ad)
    /\ FirstAdViolation(ad) = Nil

\* C16: CreateAd with a field-valid ad whose owner id is no user's id fails
\* with the user-not-found error (store answering) without inserting or
\* drawing an id; an ad with a violated field check (image URL other than an
\* absolute path) never gets that error, whoever its owner.
C16_UnknownOwnerRejected ==
    [][ CreateAdReturns =>
          LET known == \E u \in users : u.ID = res'.ad.UserID
          IN  /\ (FieldValid(res'.ad) /\ ~known /\ ~StoreFailed(res'.err))
                 => (/\ res'.err = ErrUserNotFound
                     /\ res'.out = ZeroAd
                     /\ ads' = ads /\ adSeq' = adSeq)
              /\ (OneByteChars(res'.ad) /\ ~IsAbsolutePath(res'.ad.ImageURL)
                    /\ FirstAdViolation(res'.ad) # Nil)
                 => res'.err # ErrUserNotFound
              /\ res'.err = ErrUserNotFound => ~known ]_vars

C16_Witness ==
    /\ res.op = "CreateAd"
    /\ FieldValid(res.ad)
    /\ res.ad.UserID = 999999
    /\ res.err = ErrUserNotFound
    /\ ads = {}

\* C17: a CreateAd call that succeeds adds exactly one row to the ads table,
\* with a fresh id and the title, text, image URL, price and owner id of the
\* request, and returns that ad with the owner's login as author and
\* is_mine true.
C17_CreatedAdAsRequested ==
    [][ (CreateAdReturns /\ res'.err = Nil) =>
          \E row \in ads' :
              /\ row \notin ads /\ ads' = ads \cup {row}
              /\ \A a \in ads : a.id # row.id
              /\ row.title = res'.ad.Title /\ row.text = res'.ad.Text
              /\ row.image_url = res'.ad.ImageURL /\ row.price = res'.ad.Price
              /\ row.user_id = res'.ad.UserID
              /\ res'.out.ID = row.id
              /\ res'.out.Title = row.title /\ res'.out.Text = row.text
              /\ res'.out.ImageURL = row.image_url /\ res'.out.Price = row.price
              /\ res'.out.UserID = row.user_id
              /\ \E u \in users : u.ID = row.user_id /\ res'.out.Author = u.Login
              /\ res'.out.IsMine = TRUE ]_vars

\* C25: in every state every row of the ads table has a title of 2 to 100
\* characters and a text of 1 to 2000 characters, both counted after trimming,
\* a price from 1 to 100,000,000, and an image URL that is empty or an
\* absolute URI.
C25_PersistedAdsWithinLimits ==
    \A a \in ads :
        /\ CharLength(TrimSpace(a.title)) \in 2..100
        /\ CharLength(TrimSpace(a.text)) \in 1..2000
        /\ a.price \in 1..100000000
        /\ a.image_url.chars = 0 \/ IsAbsoluteURI(a.image_url)

\* C30: CreateAd succeeds and persists the ad for every ad that passes
\* validateAd and whose owner exists, when the store is reachable: the limits
\* validateAd checks are never looser than those of the ads table.
C30_ValidatedAdsArePersisted ==
    ( /\ res.op = "CreateAd"
      /\ validateAd(res.ad) = Nil
      /\ \E u \in users : u.ID = res.ad.UserID
      /\ ~StoreFailed(res.err) )
    => /\ res.err = Nil
       /\ \E a \in ads : /\ a.id = res.out.ID
                          /\ a.title = res.ad.Title /\ a.text = res.ad.Text
                          /\ a.image_url = res.ad.ImageURL /\ a.price = res.ad.Price

----------------------------------------------------------------------------
(* Properties of the ads table under deletions of users, under SpecOwner *)

\* C23: in every state the owner id of every row of the ads table is the id
\* of a row of the users table, also when the owner is deleted between the
\* SELECT and the INSERT of a CreateAd call; and a deletion of a user leaves
\* no ad of that user in the table and keeps the ads of the others.
C23_AdsOwnedByExistingUsers ==
    /\ [](\A a \in ads : \E u \in users : u.ID = a.user_id)
    /\ [][ (res'.op = "DeleteUser" /\ users' # users) =>
              ads' = {a \in ads : a.user_id # res'.id} ]_vars

\* the owner was there at the SELECT and gone at the INSERT
C23_Witness ==
    /\ res.op = "CreateAd"
    /\ res.err = <<"failed to create ad", "violates foreign key constraint">>
    /\ res.ad.UserID = 1
    /\ ~\E u \in users : u.ID = 1
    /\ \E a \in ads : a.user_id = 2

----------------------------------------------------------------------------
(* Properties of calls under a context, under SpecCancel *)

\* the error wraps the context's error
IsContextErr(err) ==
    Len(err) > 0 /\ err[Len(err)] \in {"context canceled", "context deadline exceeded"}

\* the rows a returned call left in the tables: one at most, with every
\* column set from the request
OneCompleteRowAtMost ==
    /\ Cardinality(res.newUsers) + Cardinality(res.newAds) <= 1
    /\ \A u \in res.newUsers :
          /\ req.kind = "register"
          /\ u.ID > 0 /\ u.Login = req.login /\ u.CreatedAt = now
          /\ CompareHashAndPassword(u.Password, req.password)
    /\ \A a \in res.newAds :
          /\ req.kind = "ad"
          /\ a.id > 0 /\ a.title = req.Title /\ a.text = req.Text
          /\ a.image_url = req.ImageURL /\ a.price = req.Price
          /\ a.user_id = req.UserID /\ a.created_at = now

\* C24 as stated: a call of Register or CreateAd during which the signal
\* fired, at whatever point, returns an error that wraps the context's error.
C24_CanceledWheneverSignalFires ==
    (res.op \in {"register", "ad"} /\ res.signal # "") => IsContextErr(res.err)

\* C24, amended: a call of Register or CreateAd whose context is done when a
\* store call starts, or becomes done while one is in flight, returns an error
\* that wraps the context's error; a signal that fires after the call's last
\* store call has ended (or after its checks have failed) does not change
\* the result.  Every returned call has left no row or one complete row in
\* the tables, a successful one exactly one; and once the signal has fired
\* the call returns.
C24_StoreCallsHonourContext ==
    /\ [](res.op \in {"register", "ad"} =>
            /\ res.firedAt \in {"send", "flight"} => IsContextErr(res.err)
            /\ res.firedAt \in {"", "return"} => ~IsContextErr(res.err)
            /\ OneCompleteRowAtMost
            /\ res.err = Nil => Cardinality(res.newUsers) + Cardinality(res.newAds) = 1)
    /\ (calls.signal # "") ~> (calls.pc = "idle")

\* the signal fired with the INSERT in flight: the error is the context's
\* and the row is in the table
C24_Witness ==
    /\ res.op = "ad"
    /\ res.firedAt = "flight"
    /\ res.err = <<"failed to create ad", "context deadline exceeded">>
    /\ Cardinality(res.newAds) = 1

----------------------------------------------------------------------------
(* Properties of Ads, under SpecAds *)

ValidSort == req.SortBy \in {"created_at", "price"} /\ req.SortOrder \in {"ASC", "DESC"}

\* the rows of the table within the price range of the request
InPriceRange == {a \in ads : req.MinPrice <= a.price /\ a.price <= req.MaxPrice}

\* the value of the sort key of a returned ad
ListedKey(ad) == IF req.SortBy = "price" THEN ad.Price ELSE ad.CreatedAt
RowKey(a) == IF req.SortBy = "price" THEN a.price ELSE a.created_at

\* C18: Ads returns the invalid-sort-field error when sortBy is neither
\* created_at nor price, else the invalid-sort-order error when sortOrder is
\* neither ASC nor DESC (asc is refused); in both cases it sends no query, and
\* every query it sends embeds one of the two fields and one of the two orders.
C18_SortParametersChecked ==
    res.op = "Ads" =>
        /\ req.SortBy \notin {"created_at", "price"}
             => (res.err = ErrInvalidSortBy /\ res.query = NoQuery /\ res.ads = <<>>)
        /\ (req.SortBy \in {"created_at", "price"} /\ req.SortOrder \notin {"ASC", "DESC"})
             => (res.err = ErrInvalidSortOrder /\ res.query = NoQuery /\ res.ads = <<>>)
        /\ res.query # NoQuery
             => (/\ Len(res.query) = 4
                 /\ res.query[2] \in {"created_at", "price"}
                 /\ res.query[4] \in {"ASC", "DESC"})

C18_Witness ==
    /\ res.op = "Ads"
    /\ req.SortBy = "price" /\ req.SortOrder = "asc"
    /\ res.err = ErrInvalidSortOrder
    /\ res.query = NoQuery
    /\ Cardinality(InPriceRange) = 2

\* C19: with valid sort parameters and the store answering, Ads succeeds;
\* every ad it returns has a price within [minPrice, maxPrice]; when the page
\* covers the whole table every row in that range is returned; and the ads
\* come ordered by the sort key, non-decreasing for ASC and non-increasing
\* for DESC.
C19_FilteredAndSorted ==
    (res.op = "Ads" /\ ValidSort /\ ~StoreFailed(res.err)) =>
        /\ res.err = Nil
        /\ \A i \in DOMAIN res.ads :
              req.MinPrice <= res.ads[i].Price /\ res.ads[i].Price <= req.MaxPrice
        /\ (req.Page = 1 /\ req.PageSize >= Cardinality(ads))
              => \A a \in InPriceRange : \E i \in DOMAIN res.ads : res.ads[i].ID = a.id
        /\ \A i, j \in DOMAIN res.ads :
              i < j => IF req.SortOrder = "ASC"
                       THEN ListedKey(res.ads[i]) <= ListedKey(res.ads[j])
                       ELSE ListedKey(res.ads[i]) >= ListedKey(res.ads[j])

C19_Witness ==
    /\ res.op = "Ads"
    /\ req.SortBy = "created_at" /\ req.SortOrder = "DESC"
    /\ req.MinPrice = 1500
    /\ Cardinality(ads) = 2 /\ Cardinality(InPriceRange) = 2
    /\ Len(res.ads) = 2
    /\ res.ads[1].CreatedAt > res.ads[2].CreatedAt

\* the rows in the price range in an order the sort parameters allow
SortedListings ==
    { f \in [1..Cardinality(InPriceRange) -> InPriceRange] :
        /\ \A a \in InPriceRange : \E i \in DOMAIN f : f[i] = a
        /\ \A i, j \in DOMAIN f :
              i < j => IF req.SortOrder = "ASC" THEN RowKey(f[i]) <= RowKey(f[j])
                       ELSE RowKey(f[i]) >= RowKey(f[j]) }

\* C20: with valid sort parameters, page p >= 1, page size s >= 1 and the store
\* answering, Ads succeeds and returns the elements at positions (p-1)*s+1
\* to p*s of the filtered rows in sort order, fewer when the rows end earlier
\* and none when the page lies beyond the end or nothing matches.
C20_PageOfSortedSequence ==
    (res.op = "Ads" /\ ValidSort /\ ~StoreFailed(res.err) /\ req.Page >= 1 /\ req.PageSize >= 1) =>
        LET n == Cardinality(InPriceRange)
            first == (req.Page - 1) * req.PageSize + 1
            last == IF req.Page * req.PageSize < n THEN req.Page * req.PageSize ELSE n
        IN  /\ res.err = Nil
            /\ Len(res.ads) = IF first > n THEN 0 ELSE last - first + 1
            /\ \E full \in SortedListings :
                  \A k \in DOMAIN res.ads : res.ads[k].ID = full[first + k - 1].id

C20_Witness ==
    /\ res.op = "Ads"
    /\ req.Page = 2 /\ req.PageSize = 1
    /\ req.SortBy = "price" /\ req.SortOrder = "ASC"
    /\ {a.price : a \in InPriceRange} = {1000, 2000}
    /\ Cardinality(InPriceRange) = 2
    /\ Len(res.ads) = 1
    /\ res.ads[1].Price = 2000

\* C21: every ad returned by a listing is a row of the table that CreateAd
\* stored for its owner, and its is_mine is true exactly when the requesting
\* user id is that owner's id, whatever the other parameters of the listing
\* and the other fields of the ad.
C21_IsMineIffOwnerRequests ==
    (res.op = "Ads" /\ res.err = Nil) =>
        \A i \in DOMAIN res.ads :
            \E a \in ads :
                /\ a.id = res.ads[i].ID
                /\ a.user_id = res.ads[i].UserID
                /\ res.ads[i].IsMine = (a.user_id = req.UserID)

C21_Witness ==
    /\ res.op = "Ads"
    /\ req.UserID = 1
    /\ Len(res.ads) = 2
    /\ \E i, j \in DOMAIN res.ads :
          /\ res.ads[i].UserID = 1 /\ res.ads[i].IsMine
          /\ res.ads[j].UserID = 2 /\ ~res.ads[j].IsMine

----------------------------------------------------------------------------
(* Properties of the /ads endpoints, under SpecHTTP *)

AdsEndpoints == {"POST /ads", "GET /ads"}

\* C13: a request to /ads without the token header, or with a token that
\* ValidateToken rejects (any token not signed with HS256 under the secret
\* among them), gets status 401 and no call of the ad service is made for it;
\* every call of the ad service is made with the user id that ValidateToken
\* returned, without error, for the token of the request.
C13_AdsRequireValidToken ==
    res.op \in AdsEndpoints =>
        LET refused == res.status = 401 /\ res.serviceCalls = <<>> /\ res.body = <<>>
        IN  /\ res.header = NoHeader => refused
            /\ (res.validated /\ res.err # Nil) => refused
            /\ ~CorrectlySigned(TokenString(TrimHeader(res.header))) => refused
            /\ \A i \in DOMAIN res.serviceCalls :
                  /\ res.validated /\ res.err = Nil
                  /\ res.serviceCalls[i].userID = res.id
                  /\ CorrectlySigned(TokenString(TrimHeader(res.header)))
                  /\ Decoded(TokenString(TrimHeader(res.header)))["user_id"]
                        = GoFloat64(res.id, FALSE)

C13_Witness ==
    /\ res.op = "POST /ads"
    /\ res.header = HeaderValue(0, <<TokenFor(1, OtherSecret, T0)>>, 0)
    /\ res.validated /\ res.err # Nil
    /\ res.status = 401
    /\ res.serviceCalls = <<>>
    /\ ads = {SeededAd}

\* C22: GetAds queries the store with created_at for an empty sortBy, DESC
\* for an empty sortOrder and 100,000,000 for a zero maxPrice, and with the
\* request's own value for every sortBy, sortOrder and maxPrice that is not
\* empty or zero, as for page, page size and minPrice.
C22_GetAdsDefaults ==
    (res.op = "GET /ads" /\ res.serviceCalls # <<>>) =>
        LET r == res.request
            sortBy == IF r.SortBy = "" THEN "created_at" ELSE r.SortBy
            sortOrder == IF r.SortOrder = "" THEN "DESC" ELSE r.SortOrder
            maxP == IF r.MaxPrice = 0 THEN 100000000 ELSE r.MaxPrice
        IN  IF sortBy \notin {"created_at", "price"} \/ sortOrder \notin {"ASC", "DESC"}
            THEN res.query = NoQuery /\ res.error \in {ErrInvalidSortBy, ErrInvalidSortOrder}
            ELSE /\ res.query = <<"ORDER BY a.", sortBy, " ", sortOrder>>
                 /\ res.args = <<res.id, r.MinPrice, maxP, r.PageSize,
                                 (r.Page - 1) * r.PageSize>>
                 /\ \A i \in DOMAIN res.body : res.body[i].Price <= maxP

C22_Witness ==
    /\ res.op = "GET /ads"
    /\ res.request.SortBy = "" /\ res.request.SortOrder = ""
    /\ res.request.MaxPrice = 2500
    /\ res.status = 200
    /\ res.query = <<"ORDER BY a.", "created_at", " ", "DESC">>
    /\ res.args[3] = 2500
    /\ Len(res.body) = 1

\* C26: a POST /ads request with a valid token of an existing user and a
\* JSON body whose title, text and price are valid and whose image_url is
\* left out or empty is answered 200 with the created ad, which is then a row
\* of the ads table (the store answering).
C26_ImageURLOptionalAtEndpoint ==
    LET b == req.body
        ad == [Title |-> b.Title, Text |-> b.Text, ImageURL |-> b.ImageURL,
               Price |-> b.Price, UserID |-> res.id]
    IN  ( /\ res.op = "POST /ads"
          /\ res.validated /\ res.err = Nil
          /\ \E u \in users : u.ID = res.id
          /\ b.json /\ b.ImageURL = EmptyURL
          /\ FieldValid(ad)
          /\ ~StoreFailed(res.error) )
        => /\ res.status = 200
           /\ Len(res.body) = 1
           /\ \E a \in ads : a.id = res.body[1].ID /\ a.image_url = EmptyURL

\* C27: an authenticated GET /ads request whose page is given and is not a
\* number of at least 1, or whose page_size is given and is not a number from
\* 1 to 100, is answered 400 without a query to the store; and every query
\* sent to the store has page >= 1, a LIMIT from 1 to 100 and an OFFSET of at
\* least 0.
C27_PagingValidatedAtEndpoint ==
    LET q == req.query
        pageOK == ~q.page.given \/ (q.page.numeric /\ q.page.n >= 1)
        sizeOK == ~q.page_size.given \/ (q.page_size.numeric /\ q.page_size.n \in 1..100)
    IN  (res.op = "GET /ads" /\ res.validated /\ res.err = Nil) =>
            /\ ~(pageOK /\ sizeOK) => (res.status = 400 /\ res.query = NoQuery)
            /\ res.query # NoQuery =>
                  /\ res.request.Page >= 1
                  /\ res.args[4] \in 1..100
                  /\ res.args[5] >= 0

----------------------------------------------------------------------------
(* Properties of ValidateToken, under SpecValidate *)

\* the claims other than exp pass their checks at both clock reads of the call
OthersValid(c, t1, t2) ==
    /\ TimeTyped(c["nbf"]) /\ ~NbfViolated(c, t1)
    /\ TimeTyped(c["iat"]) /\ ~IatViolated(c, t2)
    /\ ~IssViolated(c) /\ ~AudViolated(c) /\ ~SubViolated(c)

\* exp is a number later than both clock reads of the call
Unexpired(c, t2) == IsNumber(c["exp"]) /\ c["exp"].n > t2

\* C3: on a correctly signed token (time claims numbers or missing, exp other
\* than the very second of the call, clock read once), ValidateToken returns
\* the error of the first violated check in the order exp, nbf, iat, iss, aud,
\* user_id, and returns a user id only when no check is violated.
C3_FirstFailingCheckReported ==
    (/\ res.op = "ValidateToken"
     /\ CorrectlySigned(res.token)
     /\ res.t1 = res.t2
     /\ \A k \in {"exp", "nbf", "iat"} : TimeTyped(Decoded(res.token)[k])
     /\ Decoded(res.token)["exp"].n # res.t1)
    => LET c == Decoded(res.token)
       IN  /\ res.err \in FirstViolationErrors(c, res.t1)
           /\ res.err # Nil => res.id = 0

\* C4: on a correctly signed token whose other claims are valid, an exp earlier
\* than now is refused with the token-expired error and no user id, and an exp
\* equal to now is accepted.
C4_ExpiredRejectedBoundaryAccepted ==
    (/\ res.op = "ValidateToken"
     /\ CorrectlySigned(res.token)
     /\ res.t1 = res.t2
     /\ IsNumber(Decoded(res.token)["exp"])
     /\ OthersValid(Decoded(res.token), res.t1, res.t2))
    => LET c == Decoded(res.token)
       IN  /\ c["exp"].n < res.t1 => (res.err \in ExpErrors /\ res.id = 0)
           /\ c["exp"].n = res.t1 => (res.err = Nil /\ res.id = Int64Of(c["user_id"]))

\* C5: on a correctly signed, unexpired token whose other claims are valid,
\* a wrong or missing issuer alone gives the invalid-issuer error, and a
\* missing, non-numeric or non-positive user_id alone gives the
\* invalid-user_id error; neither returns a user id.
C5_IssuerAndSubjectInIsolation ==
    (/\ res.op = "ValidateToken"
     /\ CorrectlySigned(res.token)
     /\ Unexpired(Decoded(res.token), res.t2)
     /\ TimeTyped(Decoded(res.token)["nbf"]) /\ ~NbfViolated(Decoded(res.token), res.t1)
     /\ TimeTyped(Decoded(res.token)["iat"]) /\ ~IatViolated(Decoded(res.token), res.t2)
     /\ ~AudViolated(Decoded(res.token)))
    => LET c == Decoded(res.token)
       IN  /\ (IssViolated(c) /\ ~SubViolated(c))
                => (res.err = <<"invalid issuer">> /\ res.id = 0)
           /\ (~IssViolated(c) /\ SubViolated(c))
                => (res.err = <<"invalid user_id claim">> /\ res.id = 0)

C5_Witness ==
    /\ res.op = "ValidateToken"
    /\ CorrectlySigned(res.token)
    /\ Unexpired(Decoded(res.token), res.t2)
    /\ ~NbfViolated(Decoded(res.token), res.t1)
    /\ Decoded(res.token)["iat"] = GoFloat64(res.t2, FALSE)
    /\ ~AudViolated(Decoded(res.token))
    /\ ~IssViolated(Decoded(res.token))
    /\ Decoded(res.token)["user_id"] = GoFloat64(-1, FALSE)
    /\ res.err = ErrInvalidUserID

\* C6: on a correctly signed, unexpired token whose other claims are valid,
\* an iat of at most now + 60 (now being the clock validateRegisteredClaims
\* reads) is accepted and the user id returned; a later iat is refused with
\* the issued-in-the-future error.
C6_IssuedAtSkew ==
    (/\ res.op = "ValidateToken"
     /\ CorrectlySigned(res.token)
     /\ Unexpired(Decoded(res.token), res.t2)
     /\ TimeTyped(Decoded(res.token)["nbf"]) /\ ~NbfViolated(Decoded(res.token), res.t1)
     /\ IsNumber(Decoded(res.token)["iat"])
     /\ ~IssViolated(Decoded(res.token))
     /\ ~AudViolated(Decoded(res.token))
     /\ ~SubViolated(Decoded(res.token)))
    => LET c == Decoded(res.token)
       IN  /\ c["iat"].n <= res.t2 + 60 => (res.err = Nil /\ res.id = Int64Of(c["user_id"]))
           /\ c["iat"].n > res.t2 + 60
                => (res.err = <<"token issued in the future">> /\ res.id = 0)

C6_Witness ==
    /\ res.op = "ValidateToken"
    /\ CorrectlySigned(res.token)
    /\ Decoded(res.token)["iat"] = GoFloat64(res.t2 + 60, FALSE)
    /\ res.err = Nil
    /\ res.id = 1

\* C7: a token that is not signed with HS256 under the service's secret is
\* never given a user id: ValidateToken returns an error and id 0 for it,
\* whatever its claims.
C7_ForgedTokensRejected ==
    (res.op = "ValidateToken" /\ ~CorrectlySigned(res.token))
    => (res.err # Nil /\ res.id = 0)

C7_Witness ==
    /\ res.op = "ValidateToken"
    /\ res.token.wellformed
    /\ res.token.alg = "HS256"
    /\ res.token.sig = Mac("HS256", OtherSecret, res.token.claims)
    /\ FirstViolationErrors(Decoded(res.token), res.t2) = {Nil}
    /\ Unexpired(Decoded(res.token), res.t2)
    /\ res.err # Nil
    /\ res.id = 0

----------------------------------------------------------------------------
(* Properties of the issued token, under SpecIssue *)

C8_IssuedClaims ==
    res.op = "Issue"
    => LET c == Decoded(res.token)
       IN  /\ CorrectlySigned(res.token)
           /\ c["user_id"] = GoFloat64(res.user.ID, FALSE)
           /\ c["iat"] = GoFloat64(res.at, FALSE)
           /\ c["nbf"] = c["iat"]
           /\ c["exp"] = GoFloat64(c["iat"].n + 86400, FALSE)
           /\ c["iss"] = GoString("auth-services")
           /\ c["aud"] = GoString("marketgo-api")

C8_Witness ==
    /\ res.op = "Issue"
    /\ res.user \in users
    /\ res.user.ID = 2
    /\ res.at > T0
    /\ Decoded(res.token)["user_id"] = GoFloat64(2, FALSE)

----------------------------------------------------------------------------
(* Properties of NewConfig, under SpecConfig *)

\* C28: every parameter NewConfig loads has the value of its environment
\* variable when that is set and non-empty, otherwise the value of its
\* command-line flag when the flag is given, otherwise its default, also when
\* several flags are passed on the same command line.
C28_EnvThenFlagThenDefault ==
    res.op = "NewConfig"
    => /\ res.exit = 0
       /\ \A i \in 1..Len(Params) :
            res.config[i] =
               IF req.env[Params[i].env] # "" THEN req.env[Params[i].env]
               ELSE IF \E k \in 1..Len(req.args) : req.args[k].name = Params[i].flag
                    THEN "from-flag"
                    ELSE Params[i].default

----------------------------------------------------------------------------
(* Properties of the shutdown, under SpecShutdown *)

\* C29: once SIGINT or SIGTERM has cancelled the root context, the process
\* does not exit before Server.Start has returned, that is before srv.Shutdown
\* has completed or its five seconds are over: main never returns while Start
\* is still shutting the HTTP server down.
C29_ExitAfterStartReturned ==
    res.op = "exit" => res.start = "returned"

====
